---- MODULE Spec2Model ----
(***************************************************************************)
(* Price-feed oracle (oracle crate): period bitmask codec, price record    *)
(* store, protocol version gate, the set_price / price entry points and    *)
(* the fixed-point division fixed_div_floor.                               *)
(* Timestamps are u64 milliseconds, the ledger clock is u64 seconds.       *)
(* Bytes values are sequences of 0..255, Vec<i128> are sequences of Int.   *)
(***************************************************************************)
EXTENDS Integers, Sequences, FiniteSets, TLC

(***************************************************************************)
(* Program constants                                                       *)
(***************************************************************************)
\* mapping.rs: const RECORD_SIZE: u32 = 32
RECORD_SIZE == 32

\* protocol.rs: pub const CURRENT_PROTOCOL: u32 = 2
CURRENT_PROTOCOL == 2

\* protocol.rs get_protocol_version: unwrap_or(1)
LEGACY_PROTOCOL == 1

\* setup_tests.rs: RESOLUTION, the resolution (ms) the contract is configured with
RESOLUTION == 300000

\* setup_tests.rs: ledger timestamp (s) at which the contract is deployed
START_TIME == 900

\* setup_tests.rs: DECIMALS, the decimals the contract is configured with
DECIMALS == 14

\* assets.rs: const ASSET_LIMIT: u32 = 1000
ASSET_LIMIT == 1000

\* settings.rs: const DEFAULT_RETENTION_FEE: i128 = 100_000_000
DEFAULT_RETENTION_FEE == 100000000

\* pulse-contract lib.rs: const INITIAL_EXPIRATION_PERIOD: u32 = 180
INITIAL_EXPIRATION_PERIOD == 180

\* assets.rs extend_ttl: milliseconds bought by one daily fee
MS_PER_DAY == 86400000

(***************************************************************************)
(* Bounds of the model                                                     *)
(***************************************************************************)
\* accepted set_price calls per behaviour
MaxUpdates == 2

\* steps per behaviour of the codec taken alone
MaxFoldSteps == 4

\* accepted set_price calls per behaviour of the query runs
MaxQueryUpdates == 2

\* accepted set_price calls per behaviour of the cache runs
MaxPushes == 7

\* accepted set_price calls per behaviour of the cache resizing runs
MaxResizePushes == 3

\* runs of equal prices appended to one record's price vector
MaxMaskRuns == 3

\* invocations of the registry and of the administered settings in one behaviour
MaxCalls == 4

\* accepted updates in a run of the wide registry
MaxWideUpdates == 2

(***************************************************************************)
(* Byte helpers (soroban Bytes / U256 big-endian encoding)                 *)
(***************************************************************************)
Pow2(n) == CASE n = 0 -> 1 [] n = 1 -> 2 [] n = 2 -> 4 [] n = 3 -> 8
             [] n = 4 -> 16 [] n = 5 -> 32 [] n = 6 -> 64 [] n = 7 -> 128

\* bytemask & bit == bit, for bit = 1 << n
BitSet(bytemask, n) == (bytemask \div Pow2(n)) % 2 = 1

\* Bytes::get(i).unwrap_or_default(), i a zero-based u32 index
BytesGet(bytes, i) == IF i >= 0 /\ i < Len(bytes) THEN bytes[i + 1] ELSE 0

ZeroBytes(n) == SubSeq([i \in 1..n |-> 0], 1, n)

\* U256::shl(1) on the 32 big-endian bytes: the top bit is discarded
U256Shl1(b) ==
    SubSeq([i \in 1..RECORD_SIZE |->
              ((2 * b[i]) % 256) + (IF i < RECORD_SIZE THEN b[i + 1] \div 128 ELSE 0)],
           1, RECORD_SIZE)

\* U256::add(&one) on the 32 big-endian bytes, carrying from the last byte up
RECURSIVE U256Inc(_, _)
U256Inc(b, i) ==
    IF i = 0 THEN b
    ELSE IF b[i] < 255
    THEN SubSeq(b, 1, i - 1) \o <<b[i] + 1>> \o SubSeq(b, i + 1, RECORD_SIZE)
    ELSE U256Inc(SubSeq(b, 1, i - 1) \o <<0>> \o SubSeq(b, i + 1, RECORD_SIZE), i - 1)

U256AddOne(b) == U256Inc(b, RECORD_SIZE)

(***************************************************************************)
(* mapping.rs: period bitmask codec                                        *)
(***************************************************************************)
FoldAssetNoShift(history_mask, asset_index, price) ==
    LET from == asset_index * RECORD_SIZE
        to == from + RECORD_SIZE
        bitmask == IF Len(history_mask) >= to
                   THEN SubSeq(history_mask, from + 1, to)
                   ELSE ZeroBytes(RECORD_SIZE)
        encoded == IF price > 0 THEN U256AddOne(bitmask) ELSE bitmask
    IN IF Len(history_mask) <= from
       THEN history_mask \o encoded
       ELSE SubSeq(history_mask, 1, from) \o encoded
            \o SubSeq(history_mask, to + 1, Len(history_mask))

\* one iteration of the loop of mapping::update_history_mask
FoldAsset(history_mask, asset_index, price) ==
    LET from == asset_index * RECORD_SIZE
        to == from + RECORD_SIZE
        bitmask == IF Len(history_mask) >= to
                   THEN SubSeq(history_mask, from + 1, to)
                   ELSE ZeroBytes(RECORD_SIZE)
        shifted == U256Shl1(bitmask)
        encoded == IF price > 0 THEN U256AddOne(shifted) ELSE shifted
    IN IF Len(history_mask) <= from
       THEN history_mask \o encoded
       ELSE SubSeq(history_mask, 1, from) \o encoded
            \o SubSeq(history_mask, to + 1, Len(history_mask))

RECURSIVE FoldFrom(_, _, _)
FoldFrom(history_mask, updates, n) ==
    IF n > Len(updates) THEN history_mask
    ELSE CHOOSE folded \in { FoldFrom(next, updates, n + 1) :
                                next \in {FoldAsset(history_mask, n - 1, updates[n])} } : TRUE

\* mapping::update_history_mask
MappingUpdateHistoryMask(history_mask, updates) == FoldFrom(history_mask, updates, 1)

\* mapping::check_history_updated; a negative or too large byte offset reads as 0
CheckHistoryUpdated(history_mask, asset_index, period) ==
    LET from == asset_index * RECORD_SIZE + (RECORD_SIZE - 1 - period \div 8)
    IN BitSet(BytesGet(history_mask, from), period % 8)

\* mapping::check_history_updated in one build.  RECORD_SIZE - 1 - period / 8 is a u32
\* subtraction: below zero it panics when overflow is checked, and otherwise wraps, the
\* sum with asset_index * RECORD_SIZE wrapping back to asset_index * RECORD_SIZE minus
\* the deficit, or staying beyond the end of any buffer
CheckHistoryUpdatedIn(build, history_mask, asset_index, period) ==
    IF build = "checked" /\ period \div 8 > RECORD_SIZE - 1
    THEN [status |-> "panic", cause |-> "attempt to subtract with overflow"]
    ELSE [status |-> "ok",
          value |-> CheckHistoryUpdated(history_mask, asset_index, period)]

\* mapping::resolve_period_update_mask_position: byte position and bit mask
ResolvePeriodUpdateMaskPosition(asset_index) ==
    <<asset_index \div 8, Pow2(asset_index % 8)>>

\* check_period_updated reading the bits of a byte from the most significant one
CheckPeriodUpdatedMsbFirst(period_mask, asset_index) ==
    BitSet(BytesGet(period_mask, asset_index \div 8), 7 - (asset_index % 8))

\* mapping::resolve_period_update_mask_position + check_period_updated
CheckPeriodUpdated(period_mask, asset_index) ==
    BitSet(BytesGet(period_mask, asset_index \div 8), asset_index % 8)


(***************************************************************************)
(* Contract state                                                          *)
(***************************************************************************)
VARIABLES
    now,             \* ledger clock e.ledger().timestamp(), seconds
    configured,      \* settings::init has run (instance key "period" present)
    assets,          \* number of registered assets (instance key "assets")
    cache_size,      \* instance key "cache_size"
    protocol,        \* instance key "protocol", 0 when absent
    pending,         \* instance key "protocol_update", 0 when absent
    history,         \* instance key "history": 32 bytes per asset index
    last_timestamp,  \* instance key "last_timestamp"
    cache,           \* instance key "cache": sequence of <<timestamp, PriceUpdate>>
    temp,            \* temporary storage, timestamp -> PriceUpdate
    v1,              \* temporary storage, legacy keys <<timestamp, asset as u8>> -> price
    log,             \* history variable: timestamps of the accepted updates, in order
    first_gate       \* history variable: ledger time (s) of the first gate evaluation
                     \* of a legacy contract, 0 before it

storage == <<configured, assets, cache_size, protocol, pending, history,
             last_timestamp, cache, temp, v1>>

contract == <<now, configured, assets, cache_size, protocol, pending, history,
              last_timestamp, cache, temp, v1, log, first_gate>>

\* the codec taken alone: one history buffer folded period by period
VARIABLES
    width,           \* number of prices per vector (assets)
    buffer,          \* Bytes folded with mapping::update_history_mask, one vector per period
    vectors,         \* history variable: the vectors folded into buffer, oldest first
    gapped,          \* Bytes kept by prices::update_history_mask, called for updates only
    gapped_last,     \* the last timestamp prices::update_history_mask sees, 0 before the first
    steps            \* history variable: number of codec steps taken

codec == <<width, buffer, vectors, gapped, gapped_last, steps>>

\* fixed_div_floor taken alone
VARIABLES
    in_dividend,     \* i128 argument
    in_divisor,      \* i128 argument
    in_decimals,     \* u32 argument
    outcome          \* Some(outcome of the call), None before it

arith == <<in_dividend, in_divisor, in_decimals, outcome>>

\* the update mask of one record taken alone
VARIABLES
    record_prices,   \* the price vector of one record, entry i + 1 for asset index i
    record_mask,     \* the 32-byte update mask generated for record_prices
    record_runs      \* history variable: number of generations attempted

masking == <<record_prices, record_mask, record_runs>>

\* the asset registry and the administered settings
VARIABLES
    flavour,         \* the contract built on the base: "pulse" or "beam"
    asset_list,      \* instance key "assets": the registered assets, in order
    asset_indexes,   \* instance keys of the assets: asset -> index
    expiration,      \* instance key "expiration": one u64 per entry, decimal digits
    fee_config,      \* instance key "fee_config", Absent before config
    retention,       \* instance key "period": history retention period, ms
    costs,           \* instance key "cost" (beam): invocation costs config, None when absent
    wasm,            \* the installed contract code (update_contract)
    calls            \* history variable: number of registry invocations made

registry == <<flavour, asset_list, asset_indexes, expiration, fee_config, retention,
              costs, wasm, calls>>

vars == <<contract, codec, arith, masking, registry>>

\* Option<T>: None is the empty sequence, Some(x) the one-element sequence
None == <<>>

Some(x) == <<x>>

\* timestamps::ledger_timestamp
LedgerTimestamp(ledger_seconds) == ledger_seconds * 1000

\* timestamps::days_to_milliseconds
DaysToMilliseconds(days) == days * 24 * 60 * 60 * 1000

\* timestamps::normalize
Normalize(value, timeframe) ==
    IF value = 0 \/ timeframe = 0 THEN 0 ELSE (value \div timeframe) * timeframe

IsValidAlways(value, timeframe) == TRUE

\* timestamps::is_valid
IsValid(value, timeframe) == value = Normalize(value, timeframe)

(***************************************************************************)
(* protocol.rs: protocol version gate                                      *)
(***************************************************************************)
\* protocol::get_protocol_version
GetProtocolVersion(stored) == IF stored = 0 THEN LEGACY_PROTOCOL ELSE stored

ScheduleUpdateAtDeadline(stored, scheduled_update_ts, ledger_timestamp) ==
    IF scheduled_update_ts = 0
    THEN [result |-> FALSE, protocol |-> stored, pending |-> ledger_timestamp]
    ELSE IF scheduled_update_ts + DaysToMilliseconds(1) <= ledger_timestamp
    THEN [result |-> TRUE, protocol |-> CURRENT_PROTOCOL, pending |-> 0]
    ELSE [result |-> FALSE, protocol |-> stored, pending |-> scheduled_update_ts]

ScheduleUpdateNoDelay(stored, scheduled_update_ts, ledger_timestamp) ==
    IF scheduled_update_ts = 0
    THEN [result |-> FALSE, protocol |-> stored, pending |-> ledger_timestamp]
    ELSE IF scheduled_update_ts < ledger_timestamp
    THEN [result |-> TRUE, protocol |-> CURRENT_PROTOCOL, pending |-> 0]
    ELSE [result |-> FALSE, protocol |-> stored, pending |-> scheduled_update_ts]

\* protocol::schedule_update: the result and the two instance keys after the call
ScheduleUpdate(stored, scheduled_update_ts, ledger_timestamp) ==
    IF scheduled_update_ts = 0
    THEN [result |-> FALSE, protocol |-> stored, pending |-> ledger_timestamp]
    ELSE IF scheduled_update_ts + DaysToMilliseconds(1) < ledger_timestamp
    THEN [result |-> TRUE, protocol |-> CURRENT_PROTOCOL, pending |-> 0]
    ELSE [result |-> FALSE, protocol |-> stored, pending |-> scheduled_update_ts]

AtLatestProtocolVersionScheduling(stored, scheduled_update_ts, ledger_timestamp) ==
    ScheduleUpdate(stored, scheduled_update_ts, ledger_timestamp)

\* protocol::at_latest_protocol_version
AtLatestProtocolVersion(stored, scheduled_update_ts, ledger_timestamp) ==
    IF GetProtocolVersion(stored) = CURRENT_PROTOCOL
    THEN [result |-> TRUE, protocol |-> stored, pending |-> scheduled_update_ts]
    ELSE ScheduleUpdate(stored, scheduled_update_ts, ledger_timestamp)

(***************************************************************************)
(* prices.rs: price record store                                           *)
(***************************************************************************)
\* extract_update_record_prices: prices |-> the per-asset vector, or panicked when
\* Vec::get_unchecked runs past the end of update.prices
RECURSIVE ExtractFrom(_, _, _, _, _)
ExtractFrom(update, total, asset_index, update_index, res) ==
    IF asset_index >= total THEN [panicked |-> FALSE, prices |-> res]
    ELSE IF CheckPeriodUpdated(update.mask, asset_index)
    THEN IF update_index >= Len(update.prices)
         THEN [panicked |-> TRUE, prices |-> res]
         ELSE ExtractFrom(update, total, asset_index + 1, update_index + 1,
                          Append(res, update.prices[update_index + 1]))
    ELSE ExtractFrom(update, total, asset_index + 1, update_index, Append(res, 0))

ExtractUpdateRecordPrices(update, total) == ExtractFrom(update, total, 0, 0, <<>>)

\* extract_single_update_record_price; panicked when Vec::get_unchecked runs past
\* the end of update.prices
RECURSIVE ExtractSingleFrom(_, _, _, _)
ExtractSingleFrom(update, asset_index, asset, update_index) ==
    IF asset > asset_index THEN [panicked |-> FALSE, price |-> 0]
    ELSE IF CheckPeriodUpdated(update.mask, asset)
    THEN IF asset = asset_index
         THEN (IF update_index < Len(update.prices)
               THEN [panicked |-> FALSE, price |-> update.prices[update_index + 1]]
               ELSE [panicked |-> TRUE, price |-> 0])
         ELSE ExtractSingleFrom(update, asset_index, asset + 1, update_index + 1)
    ELSE ExtractSingleFrom(update, asset_index, asset + 1, update_index)

ExtractSingleUpdateRecordPrice(update, asset_index) ==
    ExtractSingleFrom(update, asset_index, 0, 0)

\* normalize_price_data
NormalizePriceData(price, timestamp) ==
    [price |-> price, timestamp |-> timestamp \div 1000]

\* count times U256::shl(1): eight of them move every byte one place up, so the
\* whole bytes are moved first and the remaining count % 8 bits one at a time
RECURSIVE U256Shl1Times(_, _)
U256Shl1Times(b, count) ==
    IF count <= 0 THEN b
    ELSE IF count >= 8 * RECORD_SIZE THEN ZeroBytes(RECORD_SIZE)
    ELSE IF count >= 8
    THEN U256Shl1Times(SubSeq(b, count \div 8 + 1, RECORD_SIZE) \o ZeroBytes(count \div 8),
                       count % 8)
    ELSE CHOOSE r \in { U256Shl1Times(next, count - 1) : next \in {U256Shl1(b)} } : TRUE

\* count folds of a zero price into the window of one asset: mapping::update_history_mask
\* shifts the window once per fold and adds nothing
FoldEmptyAsset(history_mask, asset_index, count) ==
    LET from == asset_index * RECORD_SIZE
        to == from + RECORD_SIZE
        bitmask == IF Len(history_mask) >= to
                   THEN SubSeq(history_mask, from + 1, to)
                   ELSE ZeroBytes(RECORD_SIZE)
        encoded == U256Shl1Times(bitmask, count)
    IN IF Len(history_mask) <= from
       THEN history_mask \o encoded
       ELSE SubSeq(history_mask, 1, from) \o encoded
            \o SubSeq(history_mask, to + 1, Len(history_mask))

RECURSIVE FoldEmptyFrom(_, _, _, _)
FoldEmptyFrom(history_map, n, count, asset_index) ==
    IF asset_index >= n THEN history_map
    ELSE CHOOSE folded \in { FoldEmptyFrom(next, n, count, asset_index + 1) :
                                next \in {FoldEmptyAsset(history_map, asset_index, count)} } : TRUE

FoldEmptyOneMore(history_map, n, count) ==
    IF count <= 0 THEN history_map ELSE FoldEmptyFrom(history_map, n, count + 1, 0)

\* the loop "for _ in 1..update_delta" of prices::update_history_mask: count folds of
\* n zero prices.  The folds of one asset touch only that asset's window, so the count
\* folds are taken asset by asset (GapLoop below is the loop fold by fold).
FoldEmpty(history_map, n, count) ==
    IF count <= 0 THEN history_map ELSE FoldEmptyFrom(history_map, n, count, 0)

\* the same loop, one fold of n zero prices after the other
RECURSIVE GapLoop(_, _, _)
GapLoop(history_map, n, count) ==
    IF count <= 0 THEN history_map
    ELSE IF count = 1 THEN MappingUpdateHistoryMask(history_map, ZeroBytes(n))
    ELSE CHOOSE folded \in { GapLoop(half, n, count - count \div 2) :
                                half \in {GapLoop(history_map, n, count \div 2)} } : TRUE

\* prices::update_history_mask: the new value of the "history" key
PricesUpdateHistoryMask(history_map, last, prices, timestamp, resolution) ==
    LET update_delta == IF last > 0 /\ timestamp > last
                        THEN (timestamp - last) \div resolution ELSE 0
        filled == IF update_delta > 1
                  THEN FoldEmpty(history_map, Len(prices), update_delta - 1)
                  ELSE history_map
    IN MappingUpdateHistoryMask(filled, prices)

HasPriceIgnoringPeriod(history_map, asset_index, periods_ago) ==
    CheckHistoryUpdated(history_map, asset_index, 0)

\* prices::has_price
HasPrice(history_map, asset_index, periods_ago) ==
    CheckHistoryUpdated(history_map, asset_index, periods_ago)

\* prices::load_history_record: first cache entry with that timestamp, else temporary storage
RECURSIVE CacheFind(_, _, _)
CacheFind(records, timestamp, i) ==
    IF i > Len(records) THEN None
    ELSE IF records[i][1] = timestamp THEN Some(records[i][2])
    ELSE CacheFind(records, timestamp, i + 1)

LoadHistoryRecord(records, store, timestamp) ==
    LET cached == CacheFind(records, timestamp, 1)
    IN IF cached # None THEN cached
       ELSE IF timestamp \in DOMAIN store THEN Some(store[timestamp]) ELSE None

\* format_price_key_v1: (timestamp << 64) | asset as u8, kept as a pair
FormatPriceKeyV1(asset, timestamp) == <<timestamp, asset % 256>>

\* get_price_v1
GetPriceV1(legacy, asset, timestamp) ==
    LET key == FormatPriceKeyV1(asset, timestamp)
    IN IF key \in DOMAIN legacy THEN Some(legacy[key]) ELSE None

\* store_price_v1
RECURSIVE StorePriceV1From(_, _, _, _)
StorePriceV1From(legacy, updates, timestamp, n) ==
    IF n > Len(updates) THEN legacy
    ELSE IF updates[n] = 0 THEN StorePriceV1From(legacy, updates, timestamp, n + 1)
    ELSE LET key == FormatPriceKeyV1(n - 1, timestamp)
             next == [k \in DOMAIN legacy \cup {key} |->
                        IF k = key THEN updates[n] ELSE legacy[k]]
         IN StorePriceV1From(next, updates, timestamp, n + 1)

StorePriceV1(legacy, updates, timestamp) == StorePriceV1From(legacy, updates, timestamp, 1)


\* the oracle's keys as one value, for the handlers below
Store ==
    [assets |-> assets, cache_size |-> cache_size, protocol |-> protocol,
     pending |-> pending, history |-> history, last_timestamp |-> last_timestamp,
     cache |-> cache, temp |-> temp, v1 |-> v1]

UntrackedNever(period) == FALSE

\* retrieve_asset_price_data, "if period > 255": the bitmask tracks 256 periods
Untracked(period) == period > 255

\* prices::retrieve_asset_price_data: the value returned and the gate keys after the call
RetrieveAssetPriceData(st, asset, timestamp, ledger_timestamp) ==
    LET gate == AtLatestProtocolVersion(st.protocol, st.pending, ledger_timestamp)
        after == [st EXCEPT !.protocol = gate.protocol, !.pending = gate.pending]
        legacy == GetPriceV1(st.v1, asset, timestamp)
        last == st.last_timestamp
        period == IF last > timestamp THEN (last - timestamp) \div RESOLUTION ELSE 0
        record == LoadHistoryRecord(st.cache, st.temp, timestamp)
        single == ExtractSingleUpdateRecordPrice(record[1], asset)
        none == [panicked |-> FALSE, value |-> None, st |-> after]
    IN IF ~gate.result
       THEN (IF legacy = None THEN none
             ELSE [none EXCEPT !.value = Some(NormalizePriceData(legacy[1], timestamp))])
       ELSE IF last < timestamp THEN none
       ELSE IF Untracked(period) THEN none
       ELSE IF ~HasPrice(st.history, asset, period) THEN none
       ELSE IF record = None THEN none
       ELSE IF single.panicked THEN [none EXCEPT !.panicked = TRUE]
       ELSE [none EXCEPT !.value = Some(NormalizePriceData(single.price, timestamp))]

CachePushEvictingNewest(records, size, entry) ==
    LET pushed == <<entry>> \o records
    IN IF Len(pushed) > size
       THEN SubSeq(pushed, Len(pushed) - size + 1, Len(pushed)) ELSE pushed

\* cache.push_front(..); while cache.len() > cache_size { cache.pop_back() }
CachePush(records, size, entry) ==
    LET pushed == <<entry>> \o records
    IN IF Len(pushed) > size THEN SubSeq(pushed, 1, size) ELSE pushed

StorePricesMarkingAlways(st, update, timestamp, update_v1, ledger_timestamp) ==
    LET store == [t \in DOMAIN st.temp \cup {timestamp} |->
                    IF t = timestamp THEN update ELSE st.temp[t]]
        records == IF st.cache_size > 0
                   THEN CachePush(st.cache, st.cache_size, <<timestamp, update>>)
                   ELSE st.cache
        gate == AtLatestProtocolVersion(st.protocol, st.pending, ledger_timestamp)
        legacy == IF ~gate.result THEN StorePriceV1(st.v1, update_v1, timestamp) ELSE st.v1
    IN [st EXCEPT !.last_timestamp = timestamp, !.temp = store, !.cache = records,
                  !.protocol = gate.protocol, !.pending = gate.pending, !.v1 = legacy]

\* prices::store_prices
StorePrices(st, update, timestamp, update_v1, ledger_timestamp) ==
    LET last == IF timestamp > st.last_timestamp THEN timestamp ELSE st.last_timestamp
        store == [t \in DOMAIN st.temp \cup {timestamp} |->
                    IF t = timestamp THEN update ELSE st.temp[t]]
        records == IF st.cache_size > 0
                   THEN CachePush(st.cache, st.cache_size, <<timestamp, update>>)
                   ELSE st.cache
        gate == AtLatestProtocolVersion(st.protocol, st.pending, ledger_timestamp)
        legacy == IF ~gate.result THEN StorePriceV1(st.v1, update_v1, timestamp) ELSE st.v1
    IN [st EXCEPT !.last_timestamp = last, !.temp = store, !.cache = records,
                  !.protocol = gate.protocol, !.pending = gate.pending, !.v1 = legacy]

\* PriceOracleContractBase::set_price: status and the keys after the call; every
\* status other than "ok" leaves the keys as they were (a failed invocation is rolled back)
\* set_price validating the timestamp before it looks at the number of prices
SetPriceCallValidatingFirst(st, is_admin, update, timestamp, ledger_seconds) ==
    LET ledger_timestamp == LedgerTimestamp(ledger_seconds)
        extracted == ExtractUpdateRecordPrices(update, st.assets)
        asset_prices == extracted.prices
        history_map == PricesUpdateHistoryMask(st.history, st.last_timestamp,
                                               asset_prices, timestamp, RESOLUTION)
    IN IF ~is_admin THEN [status |-> "Unauthorized", st |-> st]
       ELSE IF timestamp = 0 \/ ~IsValid(timestamp, RESOLUTION)
               \/ timestamp > ledger_timestamp
       THEN [status |-> "InvalidTimestamp", st |-> st]
       ELSE IF Len(update.prices) = 0 THEN [status |-> "skipped", st |-> st]
       ELSE IF Len(update.prices) > st.assets
       THEN [status |-> "InvalidPricesUpdate", st |-> st]
       ELSE IF extracted.panicked THEN [status |-> "panic", st |-> st]
       ELSE [status |-> "ok",
             st |-> [StorePrices(st, update, timestamp, asset_prices, ledger_timestamp)
                        EXCEPT !.history = history_map]]

\* PriceOracleContractBase::set_price on the storage st: outcome and storage left
SetPriceCall(st, is_admin, update, timestamp, ledger_seconds) ==
    LET ledger_timestamp == LedgerTimestamp(ledger_seconds)
        extracted == ExtractUpdateRecordPrices(update, st.assets)
        asset_prices == extracted.prices
        history_map == PricesUpdateHistoryMask(st.history, st.last_timestamp,
                                               asset_prices, timestamp, RESOLUTION)
    IN IF ~is_admin THEN [status |-> "Unauthorized", st |-> st]
       ELSE IF Len(update.prices) = 0 THEN [status |-> "skipped", st |-> st]
       ELSE IF Len(update.prices) > st.assets
       THEN [status |-> "InvalidPricesUpdate", st |-> st]
       ELSE IF timestamp = 0 \/ ~IsValid(timestamp, RESOLUTION)
               \/ timestamp > ledger_timestamp
       THEN [status |-> "InvalidTimestamp", st |-> st]
       ELSE IF extracted.panicked THEN [status |-> "panic", st |-> st]
       ELSE [status |-> "ok",
             st |-> [StorePrices(st, update, timestamp, asset_prices, ledger_timestamp)
                        EXCEPT !.history = history_map]]

(***************************************************************************)
(* prices.rs: fixed_div_floor.  An i128 does not fit the 32-bit integers   *)
(* of TLC, so a number is a sign and a magnitude, the magnitude the        *)
(* sequence of its decimal digits, most significant first, <<>> for zero.  *)
(***************************************************************************)
Zeros(n) == SubSeq([i \in 1..n |-> 0], 1, n)

\* the least element of a non-empty set of integers
Least(set) == CHOOSE m \in set : \A x \in set : m <= x

\* a without its leading zeros
MagTrim(a) ==
    SubSeq(a, Least({ i \in 1..Len(a) : a[i] # 0 } \cup {Len(a) + 1}), Len(a))

\* a < b for digit sequences of one length, looked at from position i on: the first
\* position where they differ decides
LessFrom(a, b, i) ==
    LET differ == { j \in i..Len(a) : a[j] # b[j] }
    IN differ # {} /\ a[Least(differ)] < b[Least(differ)]

\* -1, 0, 1 as a < b, a = b, a > b; a and b without leading zeros
MagCmp(a, b) ==
    IF Len(a) < Len(b) THEN -1
    ELSE IF Len(a) > Len(b) THEN 1
    ELSE IF a = b THEN 0
    ELSE IF LessFrom(a, b, 1) THEN -1 ELSE 1

\* a - b for a >= b: digit i of the difference takes a borrow exactly when the digits
\* of a after i are less than those of b
MagSub(a, b) ==
    LET padded == Zeros(Len(a) - Len(b)) \o b
        digits == [i \in 1..Len(a) |->
                     (a[i] - padded[i] - (IF LessFrom(a, padded, i + 1) THEN 1 ELSE 0)
                        + 10) % 10]
    IN MagTrim(SubSeq(digits, 1, Len(a)))

MagMulPow10(a, n) == IF a = <<>> THEN <<>> ELSE a \o Zeros(n)

\* how often b fits into r (r < 10 * b), with what is left
RECURSIVE MagDigit(_, _, _)
MagDigit(r, b, d) ==
    IF MagCmp(r, b) < 0 THEN [digit |-> d, rest |-> r]
    ELSE CHOOSE x \in { MagDigit(less, b, d + 1) : less \in {MagSub(r, b)} } : TRUE

\* long division of the digits lo..hi of a by b, b # <<>>, r carried in from the digits
\* before lo: the quotient digits and the remainder; the range is split in halves,
\* each bound to its value, to keep the evaluation shallow
RECURSIVE MagDivRange(_, _, _, _, _)
MagDivRange(a, b, lo, hi, r) ==
    IF lo > hi THEN [q |-> <<>>, r |-> r]
    ELSE IF lo = hi
    THEN CHOOSE x \in { [q |-> <<step.digit>>, r |-> step.rest] :
                           step \in {MagDigit(MagTrim(r \o <<a[lo]>>), b, 0)} } : TRUE
    ELSE CHOOSE x \in
            { CHOOSE y \in { [q |-> left.q \o right.q, r |-> right.r] :
                                right \in {MagDivRange(a, b, (lo + hi) \div 2 + 1, hi,
                                                       left.r)} } : TRUE :
                left \in {MagDivRange(a, b, lo, (lo + hi) \div 2, r)} } : TRUE

MagDivMod(a, b) ==
    CHOOSE x \in { [q |-> MagTrim(d.q), r |-> d.r] :
                      d \in {MagDivRange(a, b, 1, Len(a), <<>>)} } : TRUE

\* the decimal digits of a natural number small enough to be written as a literal
RECURSIVE MagOf(_)
MagOf(n) == IF n = 0 THEN <<>> ELSE MagOf(n \div 10) \o <<n % 10>>

Num(n) == [neg |-> n < 0, mag |-> MagOf(IF n < 0 THEN -n ELSE n)]

Pos(mag) == [neg |-> FALSE, mag |-> mag]

\* i128::MAX = 2^127 - 1
I128_MAX ==
    <<1, 7, 0, 1, 4, 1, 1, 8, 3, 4, 6, 0, 4, 6, 9, 2, 3, 1, 7, 3, 1, 6, 8, 7, 3, 0,
    3, 7, 1, 5, 8, 8, 4, 1, 0, 5, 7, 2, 7>>

\* 2^127, the magnitude of i128::MIN
I128_MIN_MAG ==
    <<1, 7, 0, 1, 4, 1, 1, 8, 3, 4, 6, 0, 4, 6, 9, 2, 3, 1, 7, 3, 1, 6, 8, 7, 3, 0,
    3, 7, 1, 5, 8, 8, 4, 1, 0, 5, 7, 2, 8>>

\* 2^128
TWO_POW_128 ==
    <<3, 4, 0, 2, 8, 2, 3, 6, 6, 9, 2, 0, 9, 3, 8, 4, 6, 3, 4, 6, 3, 3, 7, 4, 6, 0,
    7, 4, 3, 1, 7, 6, 8, 2, 1, 1, 4, 5, 6>>

FitsI128(x) ==
    IF x.neg THEN MagCmp(x.mag, I128_MIN_MAG) <= 0 ELSE MagCmp(x.mag, I128_MAX) <= 0

\* the i128 a wrapping operation leaves for the exact non-negative value x
WrapI128(x) ==
    LET low == MagDivMod(x.mag, TWO_POW_128).r
    IN IF MagCmp(low, I128_MIN_MAG) >= 0
       THEN [neg |-> TRUE, mag |-> MagSub(TWO_POW_128, low)]
       ELSE Pos(low)

\* i128::ilog10 of a positive number
Ilog10(x) == Len(x.mag) - 1

Min(a, b) == IF a < b THEN a ELSE b

Max(a, b) == IF a > b THEN a ELSE b

\* the builds: overflow-checks on (arithmetic overflow panics) or off (it wraps)
Builds == {"checked", "wrapping"}

Panicked(cause) == [status |-> "panic", cause |-> cause, value |-> Pos(<<>>)]

Returned(x) == [status |-> "ok", cause |-> "", value |-> x]

\* fixed_div_floor: ashift
AShift(dividend, decimals) == Min(38 - Ilog10(dividend), decimals)

\* fixed_div_floor: bshift
BShift(dividend, decimals) == Max(decimals - AShift(dividend, decimals), 0)

\* fixed_div_floor: the exact value of dividend * 10^ashift
ScaledDividend(dividend, decimals) ==
    Pos(MagMulPow10(dividend.mag, AShift(dividend, decimals)))

\* a / b on i128, b # 0: the quotient truncated towards zero, or the overflow of
\* i128::MIN / -1, which panics in every build
DivI128(a, b) ==
    LET q == MagDivMod(a.mag, b.mag).q
        x == [neg |-> (a.neg # b.neg) /\ q # <<>>, mag |-> q]
    IN IF FitsI128(x) THEN Returned(x) ELSE Panicked("attempt to divide with overflow")

InvalidArgumentsNever(dividend, divisor) == FALSE

\* fixed_div_floor: "if dividend <= 0 || divisor <= 0"
InvalidArguments(dividend, divisor) ==
    \/ dividend.neg \/ dividend.mag = <<>>
    \/ divisor.neg \/ divisor.mag = <<>>

\* fixed_div_floor, "vdividend / vdivisor"
Quotient(vdividend, vdivisor) ==
    IF vdivisor.mag = <<>>
    THEN Panicked("attempt to divide by zero")
    ELSE DivI128(vdividend, vdivisor)

\* fixed_div_floor under one build: the outcome of the call
FixedDivFloorIn(build, dividend, divisor, decimals) ==
    IF InvalidArguments(dividend, divisor)
    THEN Panicked("invalid division arguments")
    ELSE LET ashift == AShift(dividend, decimals)
             bshift == BShift(dividend, decimals)
             product == ScaledDividend(dividend, decimals)
             power == Pos(MagMulPow10(<<1>>, bshift))
         IN IF ashift > 0 /\ ~FitsI128(product) /\ build = "checked"
            THEN Panicked("attempt to multiply with overflow")
            ELSE IF bshift > 0 /\ ~FitsI128(power) /\ build = "checked"
            THEN Panicked("attempt to multiply with overflow")
            ELSE IF bshift > 0 /\ WrapI128(power).mag = <<>>
            THEN Panicked("attempt to divide by zero")
            ELSE CHOOSE r \in
                    { Quotient(vdividend, vdivisor) :
                        vdividend \in {IF ashift > 0 THEN WrapI128(product) ELSE dividend},
                        vdivisor \in {IF bshift > 0
                                      THEN DivI128(divisor, WrapI128(power)).value
                                      ELSE divisor} } : TRUE

\* fixed_div_floor: the outcomes the builds can produce
FixedDivFloor(dividend, divisor, decimals) ==
    { FixedDivFloorIn(build, dividend, divisor, decimals) : build \in Builds }

(***************************************************************************)
(* prices.rs: range, cross-price and TWAP queries.  A query names the       *)
(* closure handed to load_prices / calculate_twap: the plain one of         *)
(* price_oracle.rs prices / twap, or the cross one of x_prices / x_twap.    *)
(* The i128 prices these queries compute with are signs and magnitudes.     *)
(***************************************************************************)
\* the closure |timestamp| retrieve_asset_price_data(e, asset_index, timestamp)
Plain(asset) == [kind |-> "plain", asset |-> asset]

\* the closure |timestamp| load_cross_price(e, asset_pair_indexes, timestamp, decimals),
\* in one build
Cross(build, base_asset, quote_asset, decimals) ==
    [kind |-> "cross", build |-> build, base |-> base_asset, quote |-> quote_asset,
     decimals |-> decimals]

ObtainLastRecordTimestampInclusive(last, ledger_timestamp, resolution) ==
    IF last = 0 \/ last > ledger_timestamp \/ ledger_timestamp - last > resolution * 2
    THEN 0
    ELSE last

\* prices::obtain_last_record_timestamp
ObtainLastRecordTimestamp(last, ledger_timestamp, resolution) ==
    IF last = 0 \/ last > ledger_timestamp \/ ledger_timestamp - last >= resolution * 2
    THEN 0
    ELSE last

\* 10i128.pow(decimals) in one build: the power, a panic on overflow when overflow
\* is checked, the wrapped power otherwise
PowerOfTen(build, decimals) ==
    LET power == Pos(MagMulPow10(<<1>>, decimals))
    IN IF FitsI128(power) THEN Returned(power)
       ELSE IF build = "checked" THEN Panicked("attempt to multiply with overflow")
       ELSE Returned(WrapI128(power))

\* PriceData with an i128 price kept as sign and magnitude
PriceDataOf(found) == [price |-> Num(found.price), timestamp |-> found.timestamp]

\* load_cross_price for two different assets, the base leg retrieved: the quote leg
\* is retrieved on the keys the base leg left, then the prices are divided
CrossOfLegs(build, base_leg, quote_leg, timestamp, decimals) ==
    IF quote_leg.panicked \/ quote_leg.value = None
    THEN [panicked |-> quote_leg.panicked, value |-> None, st |-> quote_leg.st]
    ELSE CHOOSE r \in
            { IF divided.status = "panic"
              THEN [panicked |-> TRUE, value |-> None, st |-> quote_leg.st]
              ELSE [panicked |-> FALSE, st |-> quote_leg.st,
                    value |-> Some([price |-> divided.value,
                                    timestamp |-> timestamp \div 1000])] :
                divided \in {FixedDivFloorIn(build, Num(base_leg.value[1].price),
                                             Num(quote_leg.value[1].price), decimals)} } :
            TRUE

CrossLegsOnePeriodApart(build, st, base_asset, quote_asset, timestamp, decimals, ledger_timestamp) ==
    CHOOSE r \in
       { IF base_leg.panicked \/ base_leg.value = None
         THEN [panicked |-> base_leg.panicked, value |-> None, st |-> base_leg.st]
         ELSE CHOOSE x \in
                { CrossOfLegs(build, base_leg, quote_leg, timestamp, decimals) :
                    quote_leg \in {RetrieveAssetPriceData(base_leg.st, quote_asset,
                                                          timestamp - RESOLUTION,
                                                          ledger_timestamp)} } :
                TRUE :
           base_leg \in {RetrieveAssetPriceData(st, base_asset, timestamp,
                                                ledger_timestamp)} } : TRUE

\* load_cross_price for two assets: both legs retrieved at the one timestamp, the
\* base leg first, and the prices divided
CrossLegs(build, st, base_asset, quote_asset, timestamp, decimals, ledger_timestamp) ==
    CHOOSE r \in
       { IF base_leg.panicked \/ base_leg.value = None
         THEN [panicked |-> base_leg.panicked, value |-> None, st |-> base_leg.st]
         ELSE CHOOSE x \in
                { CrossOfLegs(build, base_leg, quote_leg, timestamp, decimals) :
                    quote_leg \in {RetrieveAssetPriceData(base_leg.st, quote_asset,
                                                          timestamp, ledger_timestamp)} } :
                TRUE :
           base_leg \in {RetrieveAssetPriceData(st, base_asset, timestamp,
                                                ledger_timestamp)} } : TRUE

LoadCrossPriceByLegs(build, st, base_asset, quote_asset, timestamp, decimals, ledger_timestamp) ==
    CrossLegs(build, st, base_asset, quote_asset, timestamp, decimals, ledger_timestamp)

\* prices::load_cross_price: the value returned and the keys after the call
LoadCrossPrice(build, st, base_asset, quote_asset, timestamp, decimals, ledger_timestamp) ==
    IF base_asset = quote_asset
    THEN LET identity == PowerOfTen(build, decimals)
         IN IF identity.status = "panic"
            THEN [panicked |-> TRUE, value |-> None, st |-> st]
            ELSE [panicked |-> FALSE, st |-> st,
                  value |-> Some([price |-> identity.value,
                                  timestamp |-> timestamp \div 1000])]
    ELSE CrossLegs(build, st, base_asset, quote_asset, timestamp, decimals,
                   ledger_timestamp)

\* get_price_fn(timestamp) for the closure of a query
GetPrice(query, st, timestamp, ledger_timestamp) ==
    IF query.kind = "plain"
    THEN LET found == RetrieveAssetPriceData(st, query.asset, timestamp, ledger_timestamp)
         IN [panicked |-> found.panicked, st |-> found.st,
             value |-> IF found.value = None THEN None
                       ELSE Some(PriceDataOf(found.value[1]))]
    ELSE LoadCrossPrice(query.build, st, query.base, query.quote, timestamp,
                        query.decimals, ledger_timestamp)

\* the loop "while records > 0" of load_prices: prices collects the answers, visited
\* the timestamps the closure was called with
RECURSIVE LoadPricesLoop(_, _, _, _, _, _, _)
LoadPricesLoop(query, st, timestamp, records, prices, visited, ledger_timestamp) ==
    IF records <= 0
    THEN [panicked |-> FALSE, prices |-> prices, visited |-> visited, st |-> st]
    ELSE CHOOSE r \in
            { IF got.panicked
              THEN [panicked |-> TRUE, prices |-> prices, visited |-> seen, st |-> st]
              ELSE IF timestamp < RESOLUTION
              THEN [panicked |-> FALSE, visited |-> seen, st |-> got.st,
                    prices |-> IF got.value = None THEN prices
                               ELSE Append(prices, got.value[1])]
              ELSE LoadPricesLoop(query, got.st, timestamp - RESOLUTION, records - 1,
                                  IF got.value = None THEN prices
                                  ELSE Append(prices, got.value[1]),
                                  seen, ledger_timestamp) :
                got \in {GetPrice(query, st, timestamp, ledger_timestamp)},
                seen \in {Append(visited, timestamp)} } : TRUE

LoadPricesUncapped(query, st, records, ledger_timestamp) ==
    LET timestamp == ObtainLastRecordTimestamp(st.last_timestamp, ledger_timestamp,
                                               RESOLUTION)
    IN IF timestamp = 0
       THEN [panicked |-> FALSE, value |-> None, visited |-> <<>>, st |-> st]
       ELSE CHOOSE r \in
               { IF walk.panicked
                 THEN [panicked |-> TRUE, value |-> None, visited |-> walk.visited,
                       st |-> st]
                 ELSE [panicked |-> FALSE, visited |-> walk.visited, st |-> walk.st,
                       value |-> IF walk.prices = <<>> THEN None ELSE Some(walk.prices)] :
                   walk \in {LoadPricesLoop(query, st, timestamp, records,
                                            <<>>, <<>>, ledger_timestamp)} } : TRUE

\* prices::load_prices: the value returned, the timestamps visited and the keys after
LoadPrices(query, st, records, ledger_timestamp) ==
    LET timestamp == ObtainLastRecordTimestamp(st.last_timestamp, ledger_timestamp,
                                               RESOLUTION)
    IN IF timestamp = 0
       THEN [panicked |-> FALSE, value |-> None, visited |-> <<>>, st |-> st]
       ELSE CHOOSE r \in
               { IF walk.panicked
                 THEN [panicked |-> TRUE, value |-> None, visited |-> walk.visited,
                       st |-> st]
                 ELSE [panicked |-> FALSE, visited |-> walk.visited, st |-> walk.st,
                       value |-> IF walk.prices = <<>> THEN None ELSE Some(walk.prices)] :
                   walk \in {LoadPricesLoop(query, st, timestamp, Min(records, 20),
                                            <<>>, <<>>, ledger_timestamp)} } : TRUE

\* a + b on magnitudes, by way of the complement to a power of ten above both
MagAdd(a, b) ==
    LET top == MagMulPow10(<<1>>, Max(Len(a), Len(b)) + 1)
    IN MagSub(top, MagSub(MagSub(top, a), b))

\* a + b on exact signed numbers
Add(a, b) ==
    IF a.neg = b.neg
    THEN [neg |-> a.neg /\ MagAdd(a.mag, b.mag) # <<>>, mag |-> MagAdd(a.mag, b.mag)]
    ELSE IF MagCmp(a.mag, b.mag) = 0 THEN Pos(<<>>)
    ELSE IF MagCmp(a.mag, b.mag) > 0 THEN [neg |-> a.neg, mag |-> MagSub(a.mag, b.mag)]
    ELSE [neg |-> b.neg, mag |-> MagSub(b.mag, a.mag)]

\* the i128 a wrapping addition leaves for an exact sum of two i128 values
WrapSum(x) ==
    IF FitsI128(x) THEN x
    ELSE IF x.neg THEN Pos(MagSub(TWO_POW_128, x.mag))
    ELSE [neg |-> TRUE, mag |-> MagSub(TWO_POW_128, x.mag)]

\* prices.iter().map(|price_data| price_data.price).sum() in one build, from the
\* price at i on, acc the sum so far
RECURSIVE SumI128(_, _, _, _)
SumI128(build, prices, i, acc) ==
    IF i > Len(prices) THEN Returned(acc)
    ELSE LET next == Add(acc, prices[i].price)
         IN IF FitsI128(next) THEN SumI128(build, prices, i + 1, next)
            ELSE IF build = "checked" THEN Panicked("attempt to add with overflow")
            ELSE SumI128(build, prices, i + 1, WrapSum(next))

TwapOfPartial(build, prices, st, after, records, ledger_timestamp) ==
    LET last_price_timestamp == prices[1].timestamp * 1000
        none == [panicked |-> FALSE, value |-> None, st |-> after]
    IN IF last_price_timestamp + RESOLUTION + 60 * 1000 < ledger_timestamp THEN none
       ELSE CHOOSE r \in
               { IF sum.status = "panic" THEN [none EXCEPT !.panicked = TRUE, !.st = st]
                 ELSE IF DivI128(sum.value, Num(Len(prices))).status = "panic"
                 THEN [none EXCEPT !.panicked = TRUE, !.st = st]
                 ELSE [none EXCEPT
                          !.value = Some(DivI128(sum.value, Num(Len(prices))).value)] :
                   sum \in {SumI128(build, prices, 1, Pos(<<>>))} } : TRUE

TwapOfStale(build, prices, st, after, records, ledger_timestamp) ==
    LET none == [panicked |-> FALSE, value |-> None, st |-> after]
    IN IF Len(prices) # records THEN none
       ELSE CHOOSE r \in
               { IF sum.status = "panic" THEN [none EXCEPT !.panicked = TRUE, !.st = st]
                 ELSE IF DivI128(sum.value, Num(Len(prices))).status = "panic"
                 THEN [none EXCEPT !.panicked = TRUE, !.st = st]
                 ELSE [none EXCEPT
                          !.value = Some(DivI128(sum.value, Num(Len(prices))).value)] :
                   sum \in {SumI128(build, prices, 1, Pos(<<>>))} } : TRUE

TwapOfAtMost(build, prices, st, after, records, ledger_timestamp) ==
    LET last_price_timestamp == prices[1].timestamp * 1000
        none == [panicked |-> FALSE, value |-> None, st |-> after]
    IN IF Len(prices) > records THEN none
       ELSE IF last_price_timestamp + RESOLUTION + 60 * 1000 < ledger_timestamp THEN none
       ELSE CHOOSE r \in
               { IF sum.status = "panic" THEN [none EXCEPT !.panicked = TRUE, !.st = st]
                 ELSE IF DivI128(sum.value, Num(Len(prices))).status = "panic"
                 THEN [none EXCEPT !.panicked = TRUE, !.st = st]
                 ELSE [none EXCEPT
                          !.value = Some(DivI128(sum.value, Num(Len(prices))).value)] :
                   sum \in {SumI128(build, prices, 1, Pos(<<>>))} } : TRUE

\* calculate_twap once load_prices has answered with a sequence of prices
TwapOf(build, prices, st, after, records, ledger_timestamp) ==
    LET last_price_timestamp == prices[1].timestamp * 1000
        none == [panicked |-> FALSE, value |-> None, st |-> after]
    IN IF Len(prices) # records THEN none
       ELSE IF last_price_timestamp + RESOLUTION + 60 * 1000 < ledger_timestamp THEN none
       ELSE CHOOSE r \in
               { IF sum.status = "panic" THEN [none EXCEPT !.panicked = TRUE, !.st = st]
                 ELSE IF DivI128(sum.value, Num(Len(prices))).status = "panic"
                 THEN [none EXCEPT !.panicked = TRUE, !.st = st]
                 ELSE [none EXCEPT
                          !.value = Some(DivI128(sum.value, Num(Len(prices))).value)] :
                   sum \in {SumI128(build, prices, 1, Pos(<<>>))} } : TRUE

\* prices::calculate_twap in one build: the value returned and the keys after
CalculateTwap(build, query, st, records, ledger_timestamp) ==
    CHOOSE r \in
       { IF loaded.panicked THEN [panicked |-> TRUE, value |-> None, st |-> st]
         ELSE IF loaded.value = None
         THEN [panicked |-> FALSE, value |-> None, st |-> loaded.st]
         ELSE TwapOf(build, loaded.value[1], st, loaded.st, records, ledger_timestamp) :
           loaded \in {LoadPrices(query, st, records, ledger_timestamp)} } : TRUE

(***************************************************************************)
(* Inputs                                                                  *)
(***************************************************************************)
\* a 32-byte update mask whose first byte is m
MaskOf(m) == <<m>> \o ZeroBytes(RECORD_SIZE - 1)

Update(prices, m) == [prices |-> prices, mask |-> MaskOf(m)]

\* updates set_price accepts when two assets are registered
GoodUpdates ==
    { Update(<<5>>, 1), Update(<<-1, 7>>, 3), Update(<<5, 0>>, 3), Update(<<5, 7>>, 0) }

\* updates set_price skips or rejects
BadUpdates ==
    { Update(<<5>>, 3), Update(<<5, 7, 9>>, 7), Update(<<>>, 0) }

Updates == GoodUpdates \cup BadUpdates

Timestamps(ledger_seconds) ==
    LET t == LedgerTimestamp(ledger_seconds)
    IN {0, t, t - RESOLUTION, t + RESOLUTION, t - 1}

Period == RESOLUTION \div 1000

\* ledger clock values (seconds) of the oracle runs: periods 3, 4, 6 and 259
OracleTimes == {START_TIME, START_TIME + Period, START_TIME + 3 * Period,
                START_TIME + 256 * Period}

\* ledger clock values (seconds) of the protocol gate runs: periods 3, 4, and
\* 24 hours after each of them
GateTimes == {START_TIME, START_TIME + Period, START_TIME + 24 * 60 * 60,
              START_TIME + Period + 24 * 60 * 60}

CacheSizes == {0, 2}

AssetCounts == {2}

(***************************************************************************)
(* Initial states and actions                                              *)
(***************************************************************************)
CodecIdle ==
    /\ width = 0
    /\ buffer = <<>>
    /\ vectors = <<>>
    /\ gapped = <<>>
    /\ gapped_last = 0
    /\ steps = 0

ArithIdle ==
    /\ in_dividend = Num(0)
    /\ in_divisor = Num(0)
    /\ in_decimals = 0
    /\ outcome = None

MaskingIdle ==
    /\ record_prices = <<>>
    /\ record_mask = ZeroBytes(RECORD_SIZE)
    /\ record_runs = 0

\* FeeConfig, and Absent for the instance key not written yet
Absent == [kind |-> "absent", rate |-> 0]

FeeNone == [kind |-> "None", rate |-> 0]

FeeSome(rate) == [kind |-> "Some", rate |-> rate]

\* the registry after the assets 1..n were registered in this order
FirstAssets(n) == [i \in 1..n |-> i]

IndexOfFirst(n) == [asset \in 1..n |-> asset - 1]

\* history_retention_period of the test configuration
TestRetention == 100 * RESOLUTION

(***************************************************************************)
(* assets.rs: the registry.  A u64 expiration is the sequence of its       *)
(* decimal digits, <<>> for zero: 180 days of milliseconds do not fit the  *)
(* integers of TLC.                                                        *)
(***************************************************************************)
\* a * d for a digit sequence a and a small natural d
RECURSIVE MagTimes(_, _)
MagTimes(a, d) ==
    IF d = 0 THEN <<>>
    ELSE CHOOSE x \in { MagAdd(a, less) : less \in {MagTimes(a, d - 1)} } : TRUE

\* a * b on digit sequences
RECURSIVE MagMul(_, _)
MagMul(a, b) ==
    IF b = <<>> THEN <<>>
    ELSE CHOOSE x \in { MagAdd(MagMulPow10(high, 1), low) :
                           high \in {MagMul(a, SubSeq(b, 1, Len(b) - 1))},
                           low \in {MagTimes(a, b[Len(b)])} } : TRUE

\* timestamps::days_to_milliseconds as a u64
DaysToMillisecondsU64(days) == MagMul(MagOf(days), MagOf(MS_PER_DAY))

\* the period the contract built on the base passes as initial_expiration_period:
\* pulse INITIAL_EXPIRATION_PERIOD, beam 0
InitialExpirationPeriod(which) ==
    IF which = "pulse" THEN INITIAL_EXPIRATION_PERIOD ELSE 0

\* settings::get_fee_config
GetFeeConfig(stored) ==
    IF stored = Absent THEN FeeSome(DEFAULT_RETENTION_FEE) ELSE stored

\* assets::get_expiration_timestamp
GetExpirationTimestamp(ledger_timestamp, initial_expiration_period) ==
    IF initial_expiration_period > 0
    THEN MagAdd(MagOf(ledger_timestamp), DaysToMillisecondsU64(initial_expiration_period))
    ELSE <<>>

\* the instance keys of the registry
Registry ==
    [asset_list |-> asset_list, asset_indexes |-> asset_indexes,
     expiration |-> expiration, fee_config |-> fee_config]

\* assets::resolve_asset_index
ResolveAssetIndex(reg, asset) ==
    IF asset \in DOMAIN reg.asset_indexes THEN Some(reg.asset_indexes[asset]) ELSE None

\* one iteration of the loop of assets::add_assets, for the asset batch[n]
AddAsset(r, batch, n, expiration_timestamp, is_fee_config_set) ==
    IF r.status # "ok" THEN r
    ELSE IF ResolveAssetIndex(r.reg, batch[n]) # None
    THEN [status |-> "AssetAlreadyExists", reg |-> r.reg]
    ELSE [status |-> "ok",
          reg |-> [r.reg EXCEPT
                     !.asset_indexes =
                         r.reg.asset_indexes @@ (batch[n] :> Len(r.reg.asset_list)),
                     !.asset_list = Append(r.reg.asset_list, batch[n]),
                     !.expiration =
                         IF is_fee_config_set /\ expiration_timestamp # <<>>
                         THEN Append(r.reg.expiration, expiration_timestamp)
                         ELSE r.reg.expiration]]

\* the iterations for batch[lo..hi], in order; the range is halved to keep the
\* evaluation shallow
RECURSIVE AddAssetsRange(_, _, _, _, _, _)
AddAssetsRange(r, batch, lo, hi, expiration_timestamp, is_fee_config_set) ==
    IF lo > hi THEN r
    ELSE IF lo = hi THEN AddAsset(r, batch, lo, expiration_timestamp, is_fee_config_set)
    ELSE LET mid == (lo + hi) \div 2
             left == AddAssetsRange(r, batch, lo, mid, expiration_timestamp,
                                    is_fee_config_set)
         IN IF left.status # "ok" THEN left
            ELSE AddAssetsRange(left, batch, mid + 1, hi, expiration_timestamp,
                                is_fee_config_set)

\* add_assets keeping what the loop wrote before it failed
AddAssetsCallKeepingPartial(reg, batch, ledger_timestamp, initial_expiration_period) ==
    LET expiration_timestamp ==
            GetExpirationTimestamp(ledger_timestamp, initial_expiration_period)
        is_fee_config_set == GetFeeConfig(reg.fee_config) # FeeNone
        looped == AddAssetsRange([status |-> "ok", reg |-> reg], batch, 1, Len(batch),
                                 expiration_timestamp, is_fee_config_set)
    IN IF looped.status = "ok" /\ Len(looped.reg.asset_list) >= ASSET_LIMIT
       THEN [status |-> "AssetLimitExceeded", reg |-> looped.reg]
       ELSE looped

\* assets::add_assets: outcome and registry left; a failed call changes nothing
AddAssetsCall(reg, batch, ledger_timestamp, initial_expiration_period) ==
    LET expiration_timestamp ==
            GetExpirationTimestamp(ledger_timestamp, initial_expiration_period)
        is_fee_config_set == GetFeeConfig(reg.fee_config) # FeeNone
        looped == AddAssetsRange([status |-> "ok", reg |-> reg], batch, 1, Len(batch),
                                 expiration_timestamp, is_fee_config_set)
    IN IF looped.status # "ok" THEN [status |-> looped.status, reg |-> reg]
       ELSE IF Len(looped.reg.asset_list) >= ASSET_LIMIT
       THEN [status |-> "AssetLimitExceeded", reg |-> reg]
       ELSE looped

\* assets::expires
Expires(reg, asset) ==
    LET found == ResolveAssetIndex(reg, asset)
    IN IF found = None THEN [status |-> "AssetMissing", value |-> None]
       ELSE [status |-> "ok",
             value |-> IF found[1] < Len(reg.expiration)
                       THEN Some(reg.expiration[found[1] + 1]) ELSE None]

\* assets::init_expiration_config
InitExpirationConfig(reg, ledger_timestamp, initial_expiration_period) ==
    IF Len(reg.expiration) > 0 THEN reg
    ELSE [reg EXCEPT !.expiration =
             [i \in 1..Len(reg.asset_list) |->
                GetExpirationTimestamp(ledger_timestamp, initial_expiration_period)]]

\* assets::extend_ttl after sponsor.require_auth(), for amounts and rates below 2^31
\* (the product then fits an i128 and the bump a u64); burned tells whether the
\* token contract accepts the burn
ExtendTtl(reg, burned, asset, amount, ledger_timestamp, initial_expiration_period) ==
    LET found == ResolveAssetIndex(reg, asset)
        asset_index == found[1]
        fee == GetFeeConfig(reg.fee_config)
        bump == MagDivMod(MagMul(MagOf(amount), MagOf(MS_PER_DAY)), MagOf(fee.rate)).q
        now_ms == MagOf(ledger_timestamp)
        stored == IF asset_index < Len(reg.expiration)
                  THEN reg.expiration[asset_index + 1]
                  ELSE MagAdd(now_ms, DaysToMillisecondsU64(initial_expiration_period))
        asset_expiration == IF stored = <<>> \/ MagCmp(stored, now_ms) < 0
                            THEN now_ms ELSE stored
    IN IF amount <= 0 THEN [status |-> "InvalidAmount", reg |-> reg]
       ELSE IF found = None THEN [status |-> "AssetMissing", reg |-> reg]
       ELSE IF fee = FeeNone \/ fee.rate <= 0
       THEN [status |-> "InvalidConfigVersion", reg |-> reg]
       ELSE IF ~burned THEN [status |-> "panic", reg |-> reg]
       ELSE IF bump = <<>> THEN [status |-> "InvalidAmount", reg |-> reg]
       ELSE IF asset_index >= Len(reg.expiration) THEN [status |-> "panic", reg |-> reg]
       ELSE [status |-> "ok",
             reg |-> [reg EXCEPT !.expiration[asset_index + 1] =
                                     MagAdd(asset_expiration, bump)]]

(***************************************************************************)
(* beam-contract cost.rs: the invocation costs.  The stored config is a    *)
(* vector of u64, each the sequence of its decimal digits; None stands    *)
(* for the key "cost" not written.                                         *)
(***************************************************************************)
SCALE == 10000000

\* u64::MAX = 2^64 - 1
U64_MAX == <<1, 8, 4, 4, 6, 7, 4, 4, 0, 7, 3, 7, 0, 9, 5, 5, 1, 6, 1, 5>>

\* InvocationComplexity as u32
NModifier == 0

InvocationComplexity == 0..4

\* the vector load_costs_config falls back to
DefaultCosts ==
    <<MagOf(2000000), MagOf(10000000), MagOf(15000000), MagOf(20000000), MagOf(30000000)>>

\* the vector of set_invocation_costs_config_test
TestCosts == <<MagOf(10), MagOf(20), MagOf(30), MagOf(40), MagOf(50)>>

\* load_costs_config
LoadCostsConfig(stored) == IF stored = None THEN DefaultCosts ELSE stored[1]

\* costs.get(i).unwrap_or_default()
CostAt(config, i) == IF i < Len(config) THEN config[i + 1] ELSE <<>>

\* the exact value of cost * (SCALE + (periods - 1) * period_modifier)
ScaledCost(cost, periods, period_modifier) ==
    MagMul(cost, MagAdd(MagOf(SCALE), MagMul(MagOf(periods - 1), period_modifier)))

EstimateInvocationCostFlat(build, stored, invocation, periods, fee) ==
    IF fee = FeeNone THEN Returned(Pos(<<>>))
    ELSE Returned(Pos(CostAt(LoadCostsConfig(stored), invocation)))

\* estimate_invocation_cost in one build
EstimateInvocationCost(build, stored, invocation, periods, fee) ==
    LET config == LoadCostsConfig(stored)
        cost == CostAt(config, invocation)
        period_modifier == CostAt(config, NModifier)
        product == Pos(ScaledCost(cost, periods, period_modifier))
    IN IF fee = FeeNone THEN Returned(Pos(<<>>))
       ELSE IF cost = <<>> THEN Returned(Pos(<<>>))
       ELSE IF periods > 1 /\ period_modifier # <<>>
       THEN IF FitsI128(product) THEN DivI128(product, Num(SCALE))
            ELSE IF build = "checked" THEN Panicked("attempt to multiply with overflow")
            ELSE DivI128(WrapI128(product), Num(SCALE))
       ELSE Returned(Pos(cost))

\* BeamOracleContract::estimate_cost
EstimateCost(build, invocation, periods) ==
    EstimateInvocationCost(build, costs, invocation, periods, GetFeeConfig(fee_config))

\* cost::charge_invocation_fee with a fee config that is loaded already: the amount
\* burned from the caller, or the panic of the estimate
ChargeWith(build, stored, invocation, periods, fee) ==
    LET cost == EstimateInvocationCost(build, stored, invocation, periods, fee)
    IN IF fee = FeeNone THEN Returned(Pos(<<>>))
       ELSE IF cost.status = "panic" THEN cost
       ELSE IF cost.value.neg \/ cost.value.mag = <<>> THEN Returned(Pos(<<>>))
       ELSE Returned(cost.value)

\* cost::charge_invocation_fee
ChargeInvocationFee(build, invocation, periods) ==
    ChargeWith(build, costs, invocation, periods, GetFeeConfig(fee_config))

RegistryEmpty ==
    /\ asset_list = <<>>
    /\ asset_indexes = <<>>
    /\ expiration = <<>>
    /\ fee_config = Absent
    /\ retention = 0
    /\ costs = None
    /\ wasm = 0
    /\ calls = 0

RegistryIdle ==
    /\ flavour = "pulse"
    /\ RegistryEmpty

Empty ==
    /\ CodecIdle
    /\ ArithIdle
    /\ MaskingIdle
    /\ now = START_TIME
    /\ pending = 0
    /\ history = <<>>
    /\ last_timestamp = 0
    /\ cache = <<>>
    /\ temp = <<>>
    /\ v1 = <<>>
    /\ log = <<>>
    /\ first_gate = 0

\* a contract just deployed, before config
InitFresh ==
    /\ configured = FALSE /\ assets = 0 /\ cache_size = 2 /\ protocol = 0
    /\ Empty
    /\ RegistryIdle

\* a configured contract deployed before the protocol key existed and then upgraded
InitLegacy ==
    /\ configured = TRUE /\ assets \in AssetCounts /\ cache_size = 2 /\ protocol = 0
    /\ Empty
    /\ flavour = "pulse"
    /\ asset_list = FirstAssets(assets)
    /\ asset_indexes = IndexOfFirst(assets)
    /\ expiration = <<>>
    /\ fee_config = Absent
    /\ retention = TestRetention
    /\ costs = None
    /\ wasm = 0
    /\ calls = 0

Init == InitFresh

InitGate == InitFresh \/ InitLegacy

\* first_gate after an invocation that evaluates the gate
FirstGate ==
    IF first_gate = 0 /\ GetProtocolVersion(protocol) # CURRENT_PROTOCOL
    THEN now ELSE first_gate

\* PriceOracleContractBase::config (settings::init, set_admin, set_protocol_version,
\* add_assets); fails with AlreadyInitialized, changing nothing, once configured
ConfigStatusReinitialising(batch, fee) ==
    AddAssetsCall([Registry EXCEPT !.fee_config = fee], batch, LedgerTimestamp(now),
                  InitialExpirationPeriod(flavour)).status

\* the outcome of config: settings::init refuses a contract that holds the key
\* "period", which init itself writes; then add_assets may refuse the assets
ConfigStatus(batch, fee) ==
    IF configured THEN "AlreadyInitialized"
    ELSE AddAssetsCall([Registry EXCEPT !.fee_config = fee], batch, LedgerTimestamp(now),
                       InitialExpirationPeriod(flavour)).status

ConfigWith(batch, size, fee, period) ==
    /\ UNCHANGED <<now, log, first_gate, codec, arith, masking, flavour, costs, wasm,
                   calls>>
    /\ \E r \in {AddAssetsCall([Registry EXCEPT !.fee_config = fee], batch,
                                LedgerTimestamp(now), InitialExpirationPeriod(flavour))} :
          IF ConfigStatus(batch, fee) # "ok"
          THEN UNCHANGED <<storage, asset_list, asset_indexes, expiration, fee_config,
                           retention>>
          ELSE /\ configured' = TRUE
               /\ cache_size' = size
               /\ protocol' = CURRENT_PROTOCOL
               /\ retention' = period
               /\ fee_config' = fee
               /\ asset_list' = r.reg.asset_list
               /\ asset_indexes' = r.reg.asset_indexes
               /\ expiration' = r.reg.expiration
               /\ assets' = Len(r.reg.asset_list)
               /\ UNCHANGED <<pending, history, last_timestamp, cache, temp, v1>>

\* config with the test configuration: n assets, no fee
Config(n, size) == ConfigWith(FirstAssets(n), size, FeeNone, TestRetention)

\* PriceOracleContractBase::set_price, with at most limit accepted updates per behaviour
SetPriceWithin(limit, is_admin, update, timestamp) ==
    \E r \in {SetPriceCall(Store, configured /\ is_admin, update, timestamp, now)} :
       /\ r.status = "ok" => Len(log) < limit
       /\ protocol' = r.st.protocol
       /\ pending' = r.st.pending
       /\ history' = r.st.history
       /\ last_timestamp' = r.st.last_timestamp
       /\ cache' = r.st.cache
       /\ temp' = r.st.temp
       /\ v1' = r.st.v1
       /\ log' = IF r.status = "ok" THEN Append(log, timestamp) ELSE log
       /\ first_gate' = IF r.status = "ok" THEN FirstGate ELSE first_gate
       /\ UNCHANGED <<now, configured, assets, cache_size, codec, arith, masking, registry>>

\* PriceOracleContractBase::set_price
SetPrice(is_admin, update, timestamp) ==
    SetPriceWithin(MaxUpdates, is_admin, update, timestamp)

\* PriceOracleContractBase::price for a registered asset index: the gate keys are
\* written unless the call panics
Price(asset, seconds) ==
    /\ configured
    /\ asset < assets
    /\ \E r \in {RetrieveAssetPriceData(Store, asset, Normalize(seconds * 1000, RESOLUTION),
                                         LedgerTimestamp(now))} :
          /\ protocol' = IF r.panicked THEN protocol ELSE r.st.protocol
          /\ pending' = IF r.panicked THEN pending ELSE r.st.pending
          /\ first_gate' = IF r.panicked THEN first_gate ELSE FirstGate
    /\ UNCHANGED <<now, configured, assets, cache_size, history, last_timestamp,
                   cache, temp, v1, log, codec, arith, masking, registry>>

\* the ledger closes a later ledger
AdvanceTime(seconds) ==
    /\ seconds > now
    /\ now' = seconds
    /\ UNCHANGED storage
    /\ UNCHANGED <<log, first_gate, codec, arith, masking, registry>>

\* the host drops the temporary entries of the oldest period still stored
Expire(timestamp) ==
    /\ timestamp \in DOMAIN temp
    /\ \A t \in DOMAIN temp : timestamp <= t
    /\ temp' = [t \in DOMAIN temp \ {timestamp} |-> temp[t]]
    /\ v1' = [k \in {key \in DOMAIN v1 : key[1] # timestamp} |-> v1[k]]
    /\ UNCHANGED <<now, configured, assets, cache_size, protocol, pending, history,
                   last_timestamp, cache, log, first_gate, codec, arith, masking, registry>>

Step(times) ==
    \/ \E n \in AssetCounts, size \in CacheSizes : Config(n, size)
    \/ \E is_admin \in BOOLEAN, update \in Updates, timestamp \in Timestamps(now) :
          SetPrice(is_admin, update, timestamp)
    \/ \E asset \in 0..(assets - 1), seconds \in {now, last_timestamp \div 1000} :
          Price(asset, seconds)
    \/ \E seconds \in times : AdvanceTime(seconds)
    \/ \E timestamp \in DOMAIN temp : Expire(timestamp)

Next == Step(OracleTimes)

NextGate == Step(GateTimes)

Spec == Init /\ [][Next]_vars

SpecGate == InitGate /\ [][NextGate]_vars

(***************************************************************************)
(* The query entry points.  A query writes the keys of the protocol gate    *)
(* and nothing else; what it returns is the value of the operator the       *)
(* action applies.                                                          *)
(***************************************************************************)
\* updates with a price for both assets, and with negative prices
QueryUpdates ==
    { Update(<<5, 7>>, 3), Update(<<-2, 7>>, 3), Update(<<-1>>, 1) }

\* the timestamp of the current period
QueryStamps(ledger_seconds) == {Normalize(LedgerTimestamp(ledger_seconds), RESOLUTION)}

\* ledger clock values (seconds) of the query runs: period 3, 360 and 361 seconds
\* after it, two periods after it, and period 33
QueryClock == {START_TIME, START_TIME + Period + 60, START_TIME + Period + 61,
               START_TIME + 2 * Period, START_TIME + 30 * Period}

\* the records argument of prices / twap
RecordCounts == {0, 1, 2, 21}

\* the records argument of the calls that move the runs on
AskedCounts == {2, 21}

\* the decimals setting read by the cross-price entry points
CrossDecimals == {0, 14, 38, 39}

\* the keys after a query whose outcome is r: a panic rolls the invocation back
Answered(r) ==
    /\ protocol' = IF r.panicked THEN protocol ELSE r.st.protocol
    /\ pending' = IF r.panicked THEN pending ELSE r.st.pending
    /\ first_gate' = IF r.panicked \/ (r.st.protocol = protocol /\ r.st.pending = pending)
                     THEN first_gate ELSE FirstGate
    /\ UNCHANGED <<now, configured, assets, cache_size, history, last_timestamp,
                   cache, temp, v1, log, codec, arith, masking, registry>>

\* what lastprice returns for a registered asset index, and the keys after
LastPriceOf(st, asset, ledger_timestamp) ==
    LET ts == ObtainLastRecordTimestamp(st.last_timestamp, ledger_timestamp, RESOLUTION)
    IN IF ts = 0
       THEN [panicked |-> FALSE, value |-> None, st |-> st]
       ELSE RetrieveAssetPriceData(st, asset, ts, ledger_timestamp)

\* what x_last_price returns for registered asset indexes, and the keys after
XLastPriceOf(build, st, base_asset, quote_asset, decimals, ledger_timestamp) ==
    LET timestamp == ObtainLastRecordTimestamp(st.last_timestamp, ledger_timestamp,
                                               RESOLUTION)
    IN IF timestamp = 0
       THEN [panicked |-> FALSE, value |-> None, st |-> st]
       ELSE LoadCrossPrice(build, st, base_asset, quote_asset, timestamp, decimals,
                           ledger_timestamp)

\* PriceOracleContractBase::lastprice for a registered asset index
LastPrice(asset) ==
    /\ configured
    /\ \E r \in {LastPriceOf(Store, asset, LedgerTimestamp(now))} : Answered(r)

\* PriceOracleContractBase::x_last_price for registered asset indexes
XLastPrice(build, base_asset, quote_asset, decimals) ==
    /\ configured
    /\ \E r \in {XLastPriceOf(build, Store, base_asset, quote_asset, decimals,
                              LedgerTimestamp(now))} :
          Answered(r)

\* PriceOracleContractBase::prices for a registered asset index
Prices(asset, records) ==
    /\ configured
    /\ \E r \in {LoadPrices(Plain(asset), Store, records, LedgerTimestamp(now))} :
          Answered(r)

\* PriceOracleContractBase::twap for a registered asset index
Twap(build, asset, records) ==
    /\ configured
    /\ \E r \in {CalculateTwap(build, Plain(asset), Store, records, LedgerTimestamp(now))} :
          Answered(r)

\* PriceOracleContractBase::x_price for registered asset indexes
XPrice(build, base_asset, quote_asset, seconds, decimals) ==
    /\ configured
    /\ \E r \in {LoadCrossPrice(build, Store, base_asset, quote_asset,
                                Normalize(seconds * 1000, RESOLUTION), decimals,
                                LedgerTimestamp(now))} :
          Answered(r)

NextQuery ==
    \/ \E n \in AssetCounts : Config(n, 0)
    \/ \E update \in QueryUpdates, timestamp \in QueryStamps(now) :
          SetPriceWithin(MaxQueryUpdates, TRUE, update, timestamp)
    \/ \E asset \in 0..(assets - 1) : LastPrice(asset)
    \/ \E asset \in 0..(assets - 1), records \in AskedCounts : Prices(asset, records)
    \/ \E build \in Builds, asset \in 0..(assets - 1), records \in AskedCounts :
          Twap(build, asset, records)
    \/ \E build \in Builds, base_asset \in 0..(assets - 1), quote_asset \in 0..(assets - 1),
          decimals \in {0, 14} :
          XPrice(build, base_asset, quote_asset, now, decimals)
    \/ \E build \in Builds, base_asset \in 0..(assets - 1), quote_asset \in 0..(assets - 1) :
          XLastPrice(build, base_asset, quote_asset, 14)
    \/ \E seconds \in QueryClock : AdvanceTime(seconds)
    \/ \E timestamp \in DOMAIN temp : Expire(timestamp)

SpecQuery == InitGate /\ [][NextQuery]_vars

(***************************************************************************)
(* The recency cache: set_price with a cache size fixed by config, one     *)
(* period after the other, and set_price interleaved with set_cache_size.  *)
(***************************************************************************)
\* PriceOracleContractBase::set_cache_size
SetCacheSize(is_admin, size) ==
    /\ cache_size' = IF configured /\ is_admin THEN size ELSE cache_size
    /\ UNCHANGED <<now, configured, assets, protocol, pending, history, last_timestamp,
                   cache, temp, v1, log, first_gate, codec, arith, masking, registry>>

\* the cache sizes config sets in the cache runs
PushSizes == {1, 2}

\* the update of a period: the number of the period as the price of asset 0
PushUpdates(timestamp) == { Update(<<timestamp \div RESOLUTION, 7>>, 3) }

\* ledger clock values (seconds) of the cache runs: one period per accepted update
PushClock == { START_TIME + k * Period : k \in 0..(MaxPushes - 1) }

NextPush ==
    \/ \E n \in AssetCounts, size \in PushSizes : Config(n, size)
    \/ \E timestamp \in QueryStamps(now) : \E update \in PushUpdates(timestamp) :
          SetPriceWithin(MaxPushes, TRUE, update, timestamp)
    \/ \E seconds \in PushClock \cap {now + Period} : AdvanceTime(seconds)

SpecPush == Init /\ [][NextPush]_vars

\* the cache sizes of the resizing runs
ResizeSizes == {0, 1, 2}

\* two updates that differ in every price
ResizeUpdates == { Update(<<5, 7>>, 3), Update(<<9>>, 1) }

\* the current and the previous period
ResizeStamps(ledger_seconds) ==
    LET t == Normalize(LedgerTimestamp(ledger_seconds), RESOLUTION)
    IN {t, t - RESOLUTION}

\* ledger clock values (seconds) of the resizing runs: periods 3, 4 and 5
ResizeClock == {START_TIME, START_TIME + Period, START_TIME + 2 * Period}

NextResize ==
    \/ \E n \in AssetCounts, size \in ResizeSizes : Config(n, size)
    \/ \E update \in ResizeUpdates, timestamp \in ResizeStamps(now) :
          SetPriceWithin(MaxResizePushes, TRUE, update, timestamp)
    \/ \E is_admin \in BOOLEAN, size \in ResizeSizes : SetCacheSize(is_admin, size)
    \/ \E seconds \in ResizeClock : AdvanceTime(seconds)

SpecResize == Init /\ [][NextResize]_vars

(***************************************************************************)
(* The codec alone: mapping::update_history_mask folded period by period,  *)
(* next to prices::update_history_mask called only for the periods with an *)
(* update.  Period i has timestamp i * RESOLUTION.                          *)
(***************************************************************************)
\* per-asset prices of one period
Vectors(n) ==
    IF n = 1 THEN { <<0>>, <<5>>, <<-1>> }
    ELSE { <<0, 0>>, <<5, 0>>, <<0, 7>>, <<5, 7>>, <<-1, 7>> }

Widths == {1, 2}

\* lengths of the runs of periods without an update
IdleRuns == {1, 2, 255}

InitFold ==
    /\ width \in Widths
    /\ buffer = <<>>
    /\ vectors = <<>>
    /\ gapped = <<>>
    /\ gapped_last = 0
    /\ steps = 0
    /\ ArithIdle
    /\ MaskingIdle
    /\ RegistryIdle
    /\ configured = FALSE /\ assets = 0 /\ cache_size = 2 /\ protocol = 0
    /\ now = START_TIME /\ pending = 0 /\ history = <<>> /\ last_timestamp = 0
    /\ cache = <<>> /\ temp = <<>> /\ v1 = <<>> /\ log = <<>> /\ first_gate = 0

\* an update with per-asset prices v is accepted for the next period
Fold(v) ==
    /\ steps < MaxFoldSteps
    /\ steps' = steps + 1
    /\ buffer' = MappingUpdateHistoryMask(buffer, v)
    /\ vectors' = Append(vectors, v)
    /\ gapped' = PricesUpdateHistoryMask(gapped, gapped_last, v,
                                          (Len(vectors) + 1) * RESOLUTION, RESOLUTION)
    /\ gapped_last' = (Len(vectors) + 1) * RESOLUTION
    /\ UNCHANGED <<width, contract, arith, masking, registry>>

\* count periods pass without an update: buffer takes count folds of zero prices
Idle(count) ==
    /\ steps < MaxFoldSteps
    /\ steps' = steps + 1
    /\ buffer' = GapLoop(buffer, width, count)
    /\ vectors' = vectors \o [i \in 1..count |-> ZeroBytes(width)]
    /\ UNCHANGED <<width, gapped, gapped_last, contract, arith, masking, registry>>

NextFold ==
    \/ \E v \in Vectors(width) : Fold(v)
    \/ \E count \in IdleRuns : Idle(count)

SpecFold == InitFold /\ [][NextFold]_vars

(***************************************************************************)
(* fixed_div_floor alone: one call on arguments drawn from the sets below  *)
(***************************************************************************)
\* i128::MAX / 100 and 231731687303715884105728, the operands of fixed_div_floor_tests
TestLarge == Pos(MagDivMod(I128_MAX, <<1, 0, 0>>).q)

TestMedium ==
    Pos(<<2, 3, 1, 7, 3, 1, 6, 8, 7, 3, 0, 3, 7, 1, 5, 8, 8, 4, 1, 0, 5, 7, 2, 8>>)

Dividends ==
    { Num(-1), Num(0), Num(1), Num(2), Num(154467226), Pos(MagOf(154467226) \o MagOf(919499)),
      Pos(MagMulPow10(<<1, 7>>, 23)), Pos(MagMulPow10(<<2>>, 24)),
      TestMedium, TestLarge, Pos(I128_MAX) }

Divisors ==
    { Num(-1), Num(0), Num(1), Num(3), Pos(MagOf(133928752) \o MagOf(749774)),
      TestMedium, TestLarge }

DecimalsSet == {0, 7, 14, 38, 39}

InitDiv ==
    /\ in_dividend \in Dividends
    /\ in_divisor \in Divisors
    /\ in_decimals \in DecimalsSet
    /\ outcome = None
    /\ CodecIdle
    /\ MaskingIdle
    /\ RegistryIdle
    /\ configured = FALSE /\ assets = 0 /\ cache_size = 2 /\ protocol = 0
    /\ now = START_TIME /\ pending = 0 /\ history = <<>> /\ last_timestamp = 0
    /\ cache = <<>> /\ temp = <<>> /\ v1 = <<>> /\ log = <<>> /\ first_gate = 0

\* one call of fixed_div_floor, in either build
Divide ==
    /\ outcome = None
    /\ \E result \in FixedDivFloor(in_dividend, in_divisor, in_decimals) :
          outcome' = Some(result)
    /\ UNCHANGED <<in_dividend, in_divisor, in_decimals, contract, codec, masking,
                   registry>>

NextDiv == Divide

SpecDiv == InitDiv /\ [][NextDiv]_vars

(***************************************************************************)
(* The registry and the admin section                                      *)
(***************************************************************************)
\* auth::panic_if_not_admin passes: an admin is stored and authorized the invocation
AdminAuthorized(is_admin) == configured /\ is_admin

\* one more registry invocation, within the bound
Called ==
    /\ calls < MaxCalls
    /\ calls' = calls + 1

\* PriceOracleContractBase::add_assets
AddAssets(is_admin, batch) ==
    /\ Called
    /\ \E r \in {AddAssetsCall(Registry, batch, LedgerTimestamp(now),
                                InitialExpirationPeriod(flavour))} :
          IF AdminAuthorized(is_admin) /\ r.status = "ok"
          THEN /\ asset_list' = r.reg.asset_list
               /\ asset_indexes' = r.reg.asset_indexes
               /\ expiration' = r.reg.expiration
               /\ assets' = Len(r.reg.asset_list)
          ELSE UNCHANGED <<asset_list, asset_indexes, expiration, assets>>
    /\ UNCHANGED <<now, configured, cache_size, protocol, pending, history, last_timestamp,
                   cache, temp, v1, log, first_gate, codec, arith, masking, flavour,
                   fee_config, retention, costs, wasm>>

\* PriceOracleContractBase::set_fee_config
SetFeeConfig(is_admin, fee) ==
    /\ Called
    /\ IF AdminAuthorized(is_admin)
       THEN /\ fee_config' = fee
            /\ expiration' = InitExpirationConfig(Registry, LedgerTimestamp(now),
                                   InitialExpirationPeriod(flavour)).expiration
       ELSE UNCHANGED <<fee_config, expiration>>
    /\ UNCHANGED <<contract, codec, arith, masking, flavour, asset_list, asset_indexes,
                   retention, costs, wasm>>

\* PriceOracleContractBase::set_history_retention_period
SetHistoryRetentionPeriod(is_admin, period) ==
    /\ Called
    /\ retention' = IF AdminAuthorized(is_admin) THEN period ELSE retention
    /\ UNCHANGED <<contract, codec, arith, masking, flavour, asset_list, asset_indexes,
                   expiration, fee_config, costs, wasm>>

\* BeamOracleContract::set_invocation_costs_config: set_costs_config and nothing else
SetInvocationCostsConfig(is_admin, config) ==
    /\ Called
    /\ flavour = "beam"
    /\ costs' = Some(config)
    /\ UNCHANGED <<contract, codec, arith, masking, flavour, asset_list, asset_indexes,
                   expiration, fee_config, retention, wasm>>

\* PriceOracleContractBase::update_contract
UpdateContract(is_admin, wasm_hash) ==
    /\ Called
    /\ wasm' = IF AdminAuthorized(is_admin) THEN wasm_hash ELSE wasm
    /\ UNCHANGED <<contract, codec, arith, masking, flavour, asset_list, asset_indexes,
                   expiration, fee_config, retention, costs>>

\* PriceOracleContractBase::extend_asset_ttl: sponsor.require_auth(), assets::extend_ttl
ExtendAssetTtl(is_sponsor, burned, asset, amount) ==
    /\ Called
    /\ \E r \in {ExtendTtl(Registry, burned, asset, amount, LedgerTimestamp(now),
                            InitialExpirationPeriod(flavour))} :
          expiration' = IF is_sponsor /\ r.status = "ok" THEN r.reg.expiration
                        ELSE expiration
    /\ UNCHANGED <<contract, codec, arith, masking, flavour, asset_list, asset_indexes,
                   fee_config, retention, costs, wasm>>

\* the assets asked about: three that get registered and one that never is
RegistryAssets == 1..4

ConfigBatches == { <<1>>, <<1, 2>> }

AddedBatches == { <<2>>, <<3>>, <<2, 3>>, <<3, 3>> }

Fees == { FeeNone, FeeSome(DEFAULT_RETENTION_FEE), FeeSome(0) }

Amounts == { 0, 1, 2000 }

RegistryClock == { START_TIME + Period }

\* a contract of either kind just deployed, before config
InitRegistry ==
    /\ configured = FALSE /\ assets = 0 /\ cache_size = 2 /\ protocol = 0
    /\ Empty
    /\ flavour \in {"pulse", "beam"}
    /\ RegistryEmpty

NextRegistry ==
    \/ \E batch \in ConfigBatches, fee \in Fees : ConfigWith(batch, 0, fee, TestRetention)
    \/ \E is_admin \in BOOLEAN, batch \in AddedBatches : AddAssets(is_admin, batch)
    \/ \E is_admin \in BOOLEAN, fee \in Fees : SetFeeConfig(is_admin, fee)
    \/ \E is_sponsor, burned \in BOOLEAN, asset \in RegistryAssets, amount \in Amounts :
          ExtendAssetTtl(is_sponsor, burned, asset, amount)
    \/ \E seconds \in RegistryClock : AdvanceTime(seconds)

SpecRegistry == InitRegistry /\ [][NextRegistry]_vars

\* the query entry points, asked by asset
\* assets::resolve_asset_pair_indexes
ResolveAssetPairIndexes(reg, base_asset, quote_asset) ==
    IF ResolveAssetIndex(reg, base_asset) = None \/ ResolveAssetIndex(reg, quote_asset) = None
    THEN None
    ELSE Some(<<ResolveAssetIndex(reg, base_asset)[1], ResolveAssetIndex(reg, quote_asset)[1]>>)

\* an entry point returning None
NoData == [panicked |-> FALSE, value |-> None, st |-> Store]

\* settings::get_resolution or settings::get_decimals unwrapping a key config never wrote
Unwrapped == [panicked |-> TRUE, value |-> None, st |-> Store]

\* PriceOracleContractBase::price
PriceOfAsset(asset, seconds) ==
    IF ~configured THEN Unwrapped
    ELSE IF ResolveAssetIndex(Registry, asset) = None THEN NoData
    ELSE RetrieveAssetPriceData(Store, ResolveAssetIndex(Registry, asset)[1],
                                Normalize(seconds * 1000, RESOLUTION), LedgerTimestamp(now))

\* PriceOracleContractBase::lastprice
LastPriceOfAsset(asset) ==
    IF ~configured THEN Unwrapped
    ELSE IF ObtainLastRecordTimestamp(last_timestamp, LedgerTimestamp(now), RESOLUTION) = 0
    THEN NoData
    ELSE IF ResolveAssetIndex(Registry, asset) = None THEN NoData
    ELSE LastPriceOf(Store, ResolveAssetIndex(Registry, asset)[1], LedgerTimestamp(now))

\* PriceOracleContractBase::prices
PricesOfAsset(asset, records) ==
    IF ResolveAssetIndex(Registry, asset) = None THEN NoData
    ELSE LoadPrices(Plain(ResolveAssetIndex(Registry, asset)[1]), Store, records,
                    LedgerTimestamp(now))

\* PriceOracleContractBase::x_last_price
XLastPriceOfAssets(build, base_asset, quote_asset) ==
    LET pair == ResolveAssetPairIndexes(Registry, base_asset, quote_asset)
    IN IF ~configured THEN Unwrapped
       ELSE IF ObtainLastRecordTimestamp(last_timestamp, LedgerTimestamp(now),
                                         RESOLUTION) = 0
       THEN NoData
       ELSE IF pair = None THEN NoData
       ELSE XLastPriceOf(build, Store, pair[1][1], pair[1][2], DECIMALS,
                         LedgerTimestamp(now))

\* PriceOracleContractBase::x_price
XPriceOfAssets(build, base_asset, quote_asset, seconds) ==
    LET pair == ResolveAssetPairIndexes(Registry, base_asset, quote_asset)
    IN IF ~configured THEN Unwrapped
       ELSE IF pair = None THEN NoData
       ELSE LoadCrossPrice(build, Store, pair[1][1], pair[1][2],
                           Normalize(seconds * 1000, RESOLUTION), DECIMALS,
                           LedgerTimestamp(now))

\* PriceOracleContractBase::x_prices
XPricesOfAssets(build, base_asset, quote_asset, records) ==
    LET pair == ResolveAssetPairIndexes(Registry, base_asset, quote_asset)
    IN IF pair = None THEN NoData
       ELSE LoadPrices(Cross(build, pair[1][1], pair[1][2], DECIMALS), Store, records,
                       LedgerTimestamp(now))

\* PriceOracleContractBase::twap
TwapOfAsset(build, asset, records) ==
    IF ResolveAssetIndex(Registry, asset) = None THEN NoData
    ELSE CalculateTwap(build, Plain(ResolveAssetIndex(Registry, asset)[1]), Store, records,
                       LedgerTimestamp(now))

\* PriceOracleContractBase::x_twap
XTwapOfAssets(build, base_asset, quote_asset, records) ==
    LET pair == ResolveAssetPairIndexes(Registry, base_asset, quote_asset)
    IN IF pair = None THEN NoData
       ELSE CalculateTwap(build, Cross(build, pair[1][1], pair[1][2], DECIMALS), Store,
                          records, LedgerTimestamp(now))

Entries ==
    {"price", "lastprice", "prices", "x_last_price", "x_price", "x_prices", "twap", "x_twap"}

\* what the entry point answers in one build
Ask(entry, build, base_asset, quote_asset, seconds, records) ==
    CASE entry = "price" -> PriceOfAsset(base_asset, seconds)
      [] entry = "lastprice" -> LastPriceOfAsset(base_asset)
      [] entry = "prices" -> PricesOfAsset(base_asset, records)
      [] entry = "x_last_price" -> XLastPriceOfAssets(build, base_asset, quote_asset)
      [] entry = "x_price" -> XPriceOfAssets(build, base_asset, quote_asset, seconds)
      [] entry = "x_prices" -> XPricesOfAssets(build, base_asset, quote_asset, records)
      [] entry = "twap" -> TwapOfAsset(build, base_asset, records)
      [] entry = "x_twap" -> XTwapOfAssets(build, base_asset, quote_asset, records)

\* one invocation of a query entry point
Query(entry, build, base_asset, quote_asset, seconds, records) ==
    \E r \in {Ask(entry, build, base_asset, quote_asset, seconds, records)} : Answered(r)

\* InvocationComplexity of the class a beam entry point charges for
ComplexityOf(entry) ==
    CASE entry \in {"price", "lastprice", "prices"} -> 1
      [] entry = "twap" -> 2
      [] entry \in {"x_last_price", "x_price", "x_prices"} -> 3
      [] entry = "x_twap" -> 4

\* the charge_invocation_fee call that opens a BeamOracleContract query
BeamCharge(entry, build, records) ==
    ChargeInvocationFee(build, ComplexityOf(entry),
                        IF entry \in {"prices", "x_prices", "x_twap"} THEN records ELSE 1)

\* the assets asked about: the two registered ones and one that is not
AskedAssets == 1..3

EntryUpdates == { Update(<<5, 7>>, 3), Update(<<5>>, 1) }

EntryClock ==
    { START_TIME, START_TIME + Period, START_TIME + 2 * Period,
      START_TIME + 24 * 60 * 60 + Period }

NextEntry ==
    \/ \E n \in AssetCounts : Config(n, 0)
    \/ \E update \in EntryUpdates, timestamp \in QueryStamps(now) :
          SetPriceWithin(MaxQueryUpdates, TRUE, update, timestamp)
    \/ \E entry \in Entries, build \in Builds, base_asset \in AskedAssets,
          quote_asset \in AskedAssets, seconds \in {now, now - Period} :
          Query(entry, build, base_asset, quote_asset, seconds, 2)
    \/ \E seconds \in EntryClock : AdvanceTime(seconds)
    \/ \E timestamp \in DOMAIN temp : Expire(timestamp)

SpecEntry == InitGate /\ [][NextEntry]_vars

\* the admin section of a contract of either kind
LaterBatches == ConfigBatches \cup { <<4>> }

NextAdmin ==
    \/ \E batch \in LaterBatches, fee \in Fees : ConfigWith(batch, 0, fee, TestRetention)
    \/ \E is_admin \in BOOLEAN : SetCacheSize(is_admin, 1)
    \/ \E is_admin \in BOOLEAN, batch \in AddedBatches : AddAssets(is_admin, batch)
    \/ \E is_admin \in BOOLEAN : SetHistoryRetentionPeriod(is_admin, RESOLUTION)
    \/ \E is_admin \in BOOLEAN, fee \in Fees : SetFeeConfig(is_admin, fee)
    \/ \E is_admin \in BOOLEAN : SetInvocationCostsConfig(is_admin, TestCosts)
    \/ \E is_admin \in BOOLEAN :
          SetPriceWithin(1, is_admin, Update(<<5>>, 1), LedgerTimestamp(now))
    \/ \E is_admin \in BOOLEAN : UpdateContract(is_admin, 1)

SpecAdmin == InitRegistry /\ [][NextAdmin]_vars

\* the costs of the metered contract: config, the fee config and the costs config
CostConfigs ==
    { TestCosts, DefaultCosts, <<>>, <<MagOf(2000000), MagOf(10000000)>>,
      <<<<>>, MagOf(10000000), MagOf(15000000), <<>>, MagOf(1)>>,
      <<MagOf(3), MagOf(1), MagOf(7), MagOf(10000001), MagOf(9999999)>>,
      <<U64_MAX, U64_MAX, U64_MAX, U64_MAX, U64_MAX>> }

EstimatedPeriods == { 0, 1, 2, 5, 7, 2147483647 }

InitCost ==
    /\ configured = FALSE /\ assets = 0 /\ cache_size = 2 /\ protocol = 0
    /\ Empty
    /\ flavour = "beam"
    /\ RegistryEmpty

NextCost ==
    \/ \E fee \in Fees : ConfigWith(<<1>>, 0, fee, TestRetention)
    \/ \E is_admin \in BOOLEAN, fee \in Fees : SetFeeConfig(is_admin, fee)
    \/ \E is_admin \in BOOLEAN, config \in CostConfigs :
          SetInvocationCostsConfig(is_admin, config)

SpecCost == InitCost /\ [][NextCost]_vars

\* the registry filled up to its limit: batches of assets never registered before
FreshBatch(from, count) == [i \in 1..count |-> from + i]

LimitSizes == { 1, 2, 5, 330, 499, 989 }

NextLimit ==
    \/ \E count \in {1, 10}, fee \in {FeeNone, FeeSome(DEFAULT_RETENTION_FEE)} :
          ConfigWith(FreshBatch(0, count), 0, fee, TestRetention)
    \/ \E count \in LimitSizes : AddAssets(TRUE, FreshBatch(Len(asset_list), count))

SpecLimit == InitRegistry /\ [][NextLimit]_vars

\* a registry wider than one byte of asset indexes: updates arrive while two assets
\* are registered, add_assets then registers 255 more, and the indexes 0, 1 and 256
\* are read
WideCount == 257

WideIndexes == {0, 1, 256}

WideClock == { START_TIME + Period, START_TIME + 24 * 60 * 60 + Period }

NextWide ==
    \/ \E n \in AssetCounts : Config(n, 0)
    \/ \E update \in EntryUpdates, timestamp \in QueryStamps(now) :
          assets < WideCount /\ SetPriceWithin(MaxWideUpdates, TRUE, update, timestamp)
    \/ \E is_admin \in BOOLEAN : AddAssets(is_admin, FreshBatch(2, WideCount - 2))
    \/ \E asset \in WideIndexes, seconds \in {now, last_timestamp \div 1000} :
          Price(asset, seconds)
    \/ \E seconds \in WideClock : AdvanceTime(seconds)
    \/ \E timestamp \in DOMAIN temp : Expire(timestamp)

SpecWide == InitGate /\ [][NextWide]_vars

(***************************************************************************)
(* The update mask of one record, taken alone                              *)
(***************************************************************************)
\* bytemask | bitmask for a bitmask of one bit
ByteOr(bytemask, bitmask) ==
    IF (bytemask \div bitmask) % 2 = 1 THEN bytemask ELSE bytemask + bitmask

\* one iteration of the loop of tests::generate_update_record_mask, for entry asset
\* (counted from 0); indexing the 32-byte array past its end panics
GenerateMaskEntry(r, updates, asset) ==
    IF r.status # "ok" \/ updates[asset + 1] <= 0 THEN r
    ELSE LET position == ResolvePeriodUpdateMaskPosition(asset)
             i == position[1]
         IN IF i >= RECORD_SIZE
            THEN [status |-> "panic", mask |-> r.mask]
            ELSE [status |-> "ok",
                  mask |-> [r.mask EXCEPT ![i + 1] = ByteOr(r.mask[i + 1], position[2])]]

\* the iterations for the entries lo..(hi - 1), in order; the range is halved to keep
\* the evaluation shallow
RECURSIVE GenerateMaskRange(_, _, _, _)
GenerateMaskRange(r, updates, lo, hi) ==
    IF hi <= lo THEN r
    ELSE IF hi = lo + 1 THEN GenerateMaskEntry(r, updates, lo)
    ELSE LET mid == (lo + hi) \div 2
             left == GenerateMaskRange(r, updates, lo, mid)
         IN IF left.status # "ok" THEN left ELSE GenerateMaskRange(left, updates, mid, hi)

\* tests::generate_update_record_mask
GenerateUpdateRecordMask(updates) ==
    GenerateMaskRange([status |-> "ok", mask |-> ZeroBytes(RECORD_SIZE)], updates,
                      0, Len(updates))

MaskPrices == {-1, 0, 5}

RunLengths == {1, 7, 127, 128}

\* the longest price vector built: one entry more than the mask has bits
MaskedLimit == 8 * RECORD_SIZE + 1

InitMask == InitFresh

\* count entries of one price are appended to the vector and its mask is generated;
\* a generation that panics leaves the previous vector and mask
Extend(price, count) ==
    /\ record_runs < MaxMaskRuns
    /\ record_runs' = record_runs + 1
    /\ Len(record_prices) + count <= MaskedLimit
    /\ \E v \in {record_prices \o [i \in 1..count |-> price]} :
          \E r \in {GenerateUpdateRecordMask(v)} :
             /\ record_prices' = IF r.status = "ok" THEN v ELSE record_prices
             /\ record_mask' = IF r.status = "ok" THEN r.mask ELSE record_mask
    /\ UNCHANGED <<contract, codec, arith, registry>>

NextMask ==
    \E price \in MaskPrices, count \in RunLengths : Extend(price, count)

SpecMask == InitMask /\ [][NextMask]_vars

(***************************************************************************)
(* Properties                                                              *)
(***************************************************************************)
Range(seq) == { seq[i] : i \in 1..Len(seq) }

StrictlyIncreasing(seq) == \A i \in 1..(Len(seq) - 1) : seq[i] < seq[i + 1]

\* the price an update carries for asset index a, 0 when it carries none: the mask
\* bits below a count the prices that precede it in update.prices
CarriedPrice(update, a) ==
    LET below == Cardinality({ i \in 0..(a - 1) : CheckPeriodUpdated(update.mask, i) })
    IN IF CheckPeriodUpdated(update.mask, a) THEN update.prices[below + 1] ELSE 0

\* the value price(a, t) returns in the current state
PriceOf(a, t) == RetrieveAssetPriceData(Store, a, t, LedgerTimestamp(now))

\* period timestamps looked at: the stored and the recorded ones, and the ends of
\* the 256-period window behind the last timestamp
QueryTimes ==
    { t \in DOMAIN temp \cup Range(log)
            \cup { last_timestamp - k * RESOLUTION : k \in {0, 1, 2, 3, 254, 255} } :
        t > 0 }

\* C1: under protocol version 2 and after accepted updates with strictly increasing
\* timestamps, for every registered asset a and every period t at most 255 periods
\* behind the last timestamp, price(a, t) is the positive price the update stored at
\* t carries for a (while that record is live), and none when that update carries no
\* positive price for a or when no update was recorded at t.
C1_PriceFollowsUpdates ==
    (protocol = CURRENT_PROTOCOL /\ StrictlyIncreasing(log)) =>
        \A a \in 0..(assets - 1) : \A t \in QueryTimes :
            (t <= last_timestamp /\ (last_timestamp - t) \div RESOLUTION <= 255) =>
                /\ ~PriceOf(a, t).panicked
                /\ (t \in Range(log) /\ t \in DOMAIN temp) =>
                      PriceOf(a, t).value =
                          IF CarriedPrice(temp[t], a) > 0
                          THEN Some(NormalizePriceData(CarriedPrice(temp[t], a), t))
                          ELSE None
                /\ t \notin Range(log) => PriceOf(a, t).value = None

\* C1 witness: two updates 255 periods apart, the older one still served with its
\* price for asset 0 and none for asset 1, and a skipped period in between
C1_Witness ==
    /\ protocol = CURRENT_PROTOCOL
    /\ Len(log) = 2 /\ log[2] = log[1] + 255 * RESOLUTION
    /\ log[1] \in DOMAIN temp
    /\ PriceOf(0, log[1]).value = Some(NormalizePriceData(5, log[1]))
    /\ PriceOf(1, log[1]).value = None
    /\ PriceOf(0, log[1] + RESOLUTION).value = None

\* timestamps of the cached records
CachedTimes == { cache[i][1] : i \in 1..Len(cache) }

\* C3: under protocol version 2 a query for a period newer than the last timestamp,
\* or more than 255 periods behind it, returns none, also when a record for that
\* period is still in temporary storage or in the cache.
C3_OutsideWindowIsNone ==
    protocol = CURRENT_PROTOCOL =>
        \A a \in 0..(assets - 1) :
            \A t \in DOMAIN temp \cup CachedTimes \cup Range(log)
                     \cup { last_timestamp + RESOLUTION, LedgerTimestamp(now),
                            last_timestamp - 256 * RESOLUTION } :
                (t > last_timestamp \/ (last_timestamp - t) \div RESOLUTION > 255) =>
                    /\ ~PriceOf(a, t).panicked
                    /\ PriceOf(a, t).value = None

\* C3 witness: a record that carries a positive price for asset 1 is in temporary
\* storage and in the cache, 256 periods behind the last timestamp, the newest
\* update carries a positive price for asset 0, and the query returns none
C3_Witness ==
    /\ protocol = CURRENT_PROTOCOL
    /\ \E t \in DOMAIN temp \cap CachedTimes :
          /\ last_timestamp - t = 256 * RESOLUTION
          /\ CarriedPrice(temp[t], 1) > 0
          /\ CheckHistoryUpdated(history, 0, 0)
          /\ PriceOf(1, t).value = None

\* the inputs the rules of set_price reject: more prices than registered assets, or a
\* timestamp that is zero, not a multiple of the resolution, or after the ledger time
Rejected(update, timestamp) ==
    \/ Len(update.prices) > assets
    \/ timestamp = 0
    \/ timestamp % RESOLUTION # 0
    \/ timestamp > now * 1000

\* C5: set_price with a non-empty prices vector aborts when it carries more prices
\* than there are registered assets (InvalidPricesUpdate) or when its timestamp is
\* zero, unaligned or in the future (InvalidTimestamp), and the abort leaves the
\* history mask, last timestamp, cache, stored records and protocol keys unchanged.
C5_RejectedUpdateChangesNothing ==
    \A is_admin \in BOOLEAN, update \in Updates, timestamp \in Timestamps(now) :
        (Len(update.prices) > 0 /\ Rejected(update, timestamp)) =>
            \E r \in {SetPriceCall(Store, configured /\ is_admin, update, timestamp, now)} :
                /\ r.status \notin {"ok", "skipped"}
                /\ r.st = Store
                /\ (configured /\ is_admin) =>
                      r.status = IF Len(update.prices) > assets
                                 THEN "InvalidPricesUpdate" ELSE "InvalidTimestamp"

\* C5 witness: a legacy contract with a pending upgrade, a stored and cached record
\* and a non-empty history, where an update with too many prices and an update with
\* a future timestamp are both rejected
C5_Witness ==
    /\ configured /\ pending # 0 /\ protocol # CURRENT_PROTOCOL
    /\ history # <<>> /\ cache # <<>> /\ temp # <<>> /\ v1 # <<>> /\ last_timestamp > 0
    /\ SetPriceCall(Store, TRUE, Update(<<5, 7, 9>>, 7), LedgerTimestamp(now), now).status
          = "InvalidPricesUpdate"
    /\ SetPriceCall(Store, TRUE, Update(<<5>>, 1), LedgerTimestamp(now) + RESOLUTION, now).status
          = "InvalidTimestamp"

\* number of set bits of a Bytes mask
RECURSIVE PopcountFrom(_, _)
PopcountFrom(mask, i) ==
    IF i > Len(mask) THEN 0
    ELSE Cardinality({ n \in 0..7 : BitSet(mask[i], n) }) + PopcountFrom(mask, i + 1)

Popcount(mask) == PopcountFrom(mask, 1)

\* C6: set_price is fatal when the mask of the update does not match its prices (as
\* with an all-zero mask and a non-empty prices vector), and so every record it
\* persists, in temporary storage or in the cache, has prices.len() = popcount(mask).
C6_MaskMatchesPrices ==
    /\ \A update \in Updates, timestamp \in Timestamps(now) :
          (Len(update.prices) > 0 /\ Len(update.prices) # Popcount(update.mask)) =>
              SetPriceCall(Store, configured, update, timestamp, now).status # "ok"
    /\ \A t \in DOMAIN temp : Len(temp[t].prices) = Popcount(temp[t].mask)
    /\ \A i \in 1..Len(cache) : Len(cache[i][2].prices) = Popcount(cache[i][2].mask)

Day == 24 * 60 * 60 * 1000

\* the gate evaluated in the current state
Gate == AtLatestProtocolVersion(protocol, pending, LedgerTimestamp(now))

\* C7: an evaluation of at_latest_protocol_version at ledger time now returns true
\* and changes nothing at version 2; at Legacy with no pending timestamp it records
\* pending = now and returns false; at Legacy with pending p and now more than 24
\* hours after p it sets version 2, clears the pending marker and returns true; at
\* Legacy with pending p and now at most 24 hours after p it returns false and
\* leaves p unchanged.
C7_GateRule ==
    /\ GetProtocolVersion(protocol) = 2 =>
          Gate = [result |-> TRUE, protocol |-> protocol, pending |-> pending]
    /\ (GetProtocolVersion(protocol) = LEGACY_PROTOCOL /\ pending = 0) =>
          Gate = [result |-> FALSE, protocol |-> protocol, pending |-> now * 1000]
    /\ (GetProtocolVersion(protocol) = LEGACY_PROTOCOL /\ pending # 0
            /\ now * 1000 - pending > Day) =>
          Gate = [result |-> TRUE, protocol |-> 2, pending |-> 0]
    /\ (GetProtocolVersion(protocol) = LEGACY_PROTOCOL /\ pending # 0
            /\ now * 1000 - pending <= Day) =>
          Gate = [result |-> FALSE, protocol |-> protocol, pending |-> pending]

\* C7 witness: a legacy contract whose pending timestamp is exactly 24 hours old
\* (the gate still answers false), with legacy prices written since
C7_Witness ==
    /\ GetProtocolVersion(protocol) = LEGACY_PROTOCOL
    /\ pending # 0 /\ now * 1000 - pending = Day
    /\ first_gate # 0 /\ v1 # <<>>
    /\ ~Gate.result

\* C8: once the version is 2 it stays 2 and the pending marker stays cleared, and a
\* legacy contract is not at version 2 earlier than 24 hours after the ledger time
\* of its first gate evaluation.
C8_OneWayDelayed ==
    /\ [](GetProtocolVersion(protocol) = 2 => pending = 0)
    /\ [][GetProtocolVersion(protocol) = 2 => GetProtocolVersion(protocol') = 2]_vars
    /\ []((first_gate # 0 /\ GetProtocolVersion(protocol) = 2) =>
             now * 1000 >= first_gate * 1000 + Day)

\* C8 witness: a contract that was legacy at its first gate evaluation is at
\* version 2 with the pending marker cleared, and has taken an update since
C8_Witness ==
    /\ first_gate # 0 /\ protocol = 2 /\ pending = 0
    /\ Len(log) > 0 /\ log[Len(log)] > first_gate * 1000 + Day

\* the 32-byte slice of asset index a, as far as it is present
Slice(bytes, a) == SubSeq(bytes, a * RECORD_SIZE + 1,
                          IF Len(bytes) < (a + 1) * RECORD_SIZE
                          THEN Len(bytes) ELSE (a + 1) * RECORD_SIZE)

\* asset index a had a positive price k periods before the newest folded vector
PositiveAt(a, k) ==
    k < Len(vectors) /\ vectors[Len(vectors) - k][a + 1] > 0

\* C2: from the empty buffer, after folding N vectors of equal length with
\* mapping::update_history_mask, check_history_updated(buffer, a, k) tells whether
\* asset a had a positive price in the vector folded k folds before the newest, for
\* every k < min(N, 256); every other bit of the 256-bit window is clear, so folds
\* older than 256 are evicted; and a fold changes the slice of an asset according
\* to that asset's own price only.
C2_FoldedBits ==
    /\ [](/\ Len(buffer) = (IF vectors = <<>> THEN 0 ELSE width * RECORD_SIZE)
          /\ \A a \in 0..(width - 1), k \in 0..255 :
                CheckHistoryUpdated(buffer, a, k) = PositiveAt(a, k))
    /\ [][Len(vectors') = Len(vectors) + 1 =>
            \A a \in 0..(width - 1) : \A w \in Vectors(width) :
                w[a + 1] = vectors'[Len(vectors')][a + 1] =>
                    Slice(buffer', a) = Slice(MappingUpdateHistoryMask(buffer, w), a)]_vars

\* C2 witness: 257 vectors folded, the first with positive prices for both assets
\* and by now evicted, the newest with a positive price for asset 1 only
C2_Witness ==
    /\ width = 2 /\ Len(vectors) = 257
    /\ vectors[1] = <<5, 7>> /\ vectors[257] = <<0, 7>>
    /\ CheckHistoryUpdated(buffer, 1, 0) /\ ~CheckHistoryUpdated(buffer, 0, 0)
    /\ \A k \in 1..255 : ~CheckHistoryUpdated(buffer, 0, k)

\* C4: gap filling.  After an update accepted d periods after the previous one, the
\* history kept by prices::update_history_mask has the bytes of the buffer that took
\* a fold in every period, the skipped periods with all prices zero: each window is
\* shifted by d bits, with d - 1 zero bits for the skipped periods.
C4_GapFilling ==
    (vectors # <<>> /\ gapped_last = Len(vectors) * RESOLUTION) =>
        /\ gapped = buffer
        /\ \A a \in 0..(width - 1), k \in 0..255 :
              CheckHistoryUpdated(gapped, a, k) = PositiveAt(a, k)

\* C4 witness: an update at period 1, none at periods 2 and 3, an update at period 4
C4_Witness ==
    /\ width = 2 /\ steps = 3 /\ Len(vectors) = 4
    /\ gapped_last = 4 * RESOLUTION
    /\ vectors[1] = <<5, 7>> /\ vectors[2] = <<0, 0>> /\ vectors[3] = <<0, 0>>
    /\ vectors[4] = <<5, 0>>
    /\ CheckHistoryUpdated(gapped, 0, 3) /\ CheckHistoryUpdated(gapped, 0, 0)
    /\ ~CheckHistoryUpdated(gapped, 0, 1) /\ ~CheckHistoryUpdated(gapped, 0, 2)

NonPositive(x) == x.neg \/ x.mag = <<>>

\* C9: fixed_div_floor panics, and returns no value, whenever the dividend or the
\* divisor is zero or negative, whatever the decimals and the build.
C9_NonPositivePanics ==
    (NonPositive(in_dividend) \/ NonPositive(in_divisor)) =>
        /\ \A result \in FixedDivFloor(in_dividend, in_divisor, in_decimals) :
              result.status = "panic"
        /\ outcome # None => outcome[1].status = "panic"

\* C9 witness: the call fixed_div_floor(1, 0, 14) has panicked
C9_Witness ==
    /\ in_dividend = Num(1) /\ in_divisor = Num(0) /\ in_decimals = 14
    /\ outcome # None /\ outcome[1].status = "panic"

\* C10: for strictly positive operands and every decimals, the product
\* dividend * 10^ashift with ashift = min(38 - ilog10(dividend), decimals) is within
\* the i128 range.
C10_ProductFits ==
    (outcome # None /\ ~NonPositive(in_dividend) /\ ~NonPositive(in_divisor)) =>
        FitsI128(Pos(MagMulPow10(in_dividend.mag,
                                 Min(38 - Ilog10(in_dividend), in_decimals))))

\* the divisor fixed_div_floor divides by, as an exact number: divisor / 10^bshift
TruncatedDivisor ==
    MagDivMod(in_divisor.mag, MagMulPow10(<<1>>, BShift(in_dividend, in_decimals))).q

\* C11: for strictly positive operands fixed_div_floor returns
\* (dividend * 10^ashift) / (divisor / 10^bshift), the quotient rounded down, with
\* ashift = min(38 - floor(log10(dividend)), decimals) and bshift = decimals - ashift
\* (stated where the truncated divisor is not zero); when bshift = 0 that is
\* floor(dividend * 10^decimals / divisor).
C11_ScaledQuotient ==
    (/\ outcome # None
     /\ ~NonPositive(in_dividend) /\ ~NonPositive(in_divisor)
     /\ TruncatedDivisor # <<>>) =>
        /\ outcome[1].status = "ok"
        /\ outcome[1].value =
              Pos(MagDivMod(MagMulPow10(in_dividend.mag, AShift(in_dividend, in_decimals)),
                            TruncatedDivisor).q)
        /\ BShift(in_dividend, in_decimals) = 0 =>
              outcome[1].value =
                 Pos(MagDivMod(MagMulPow10(in_dividend.mag, in_decimals), in_divisor.mag).q)

\* timestamps the cross-price queries are put at: the stored ones, the last one, the
\* current period, the one after it, and 0
CrossTimes ==
    DOMAIN temp \cup {0, last_timestamp, Normalize(LedgerTimestamp(now), RESOLUTION),
                      Normalize(LedgerTimestamp(now), RESOLUTION) + RESOLUTION}

\* load_cross_price(a, a, t, decimals) answers 10^decimals at t
IdentityAt(build, a, t, decimals) ==
    LET r == LoadCrossPrice(build, Store, a, a, t, decimals, LedgerTimestamp(now))
    IN /\ ~r.panicked
       /\ r.value = Some([price |-> Pos(MagMulPow10(<<1>>, decimals)),
                          timestamp |-> t \div 1000])

\* C12 as stated: load_cross_price with the base index equal to the quote index
\* returns exactly 10^decimals, for every timestamp, in every state, whatever the
\* decimals setting, whether or not a price is stored for the asset at the timestamp.
C12_CrossIdentity ==
    configured =>
        \A build \in Builds, a \in 0..(assets - 1), t \in CrossTimes,
           decimals \in CrossDecimals :
            IdentityAt(build, a, t, decimals)

\* C12 amended: the same for every decimals setting up to 38, the largest power of
\* ten an i128 holds.
C12_CrossIdentityWithinI128 ==
    configured =>
        \A build \in Builds, a \in 0..(assets - 1), t \in CrossTimes,
           decimals \in { d \in CrossDecimals : d <= 38 } :
            IdentityAt(build, a, t, decimals)

\* C12 witness: asset 1 has a price at the last timestamp and none at timestamp 0,
\* and the cross price of asset 1 with itself is 10^14 at both
C12_Witness ==
    /\ configured /\ last_timestamp > 0
    /\ RetrieveAssetPriceData(Store, 1, last_timestamp, LedgerTimestamp(now)).value # None
    /\ RetrieveAssetPriceData(Store, 1, 0, LedgerTimestamp(now)).value = None
    /\ IdentityAt("checked", 1, last_timestamp, 14)
    /\ IdentityAt("checked", 1, 0, 14)

\* what C13 says load_cross_price(a, b, t, decimals) answers for a # b, from the two
\* legs looked up one by one in the current state
CrossAt(build, a, b, t, decimals) ==
    \A base_leg \in {RetrieveAssetPriceData(Store, a, t, LedgerTimestamp(now))},
       quote_leg \in {RetrieveAssetPriceData(Store, b, t, LedgerTimestamp(now))},
       r \in {LoadCrossPrice(build, Store, a, b, t, decimals, LedgerTimestamp(now))} :
        (~base_leg.panicked /\ ~quote_leg.panicked) =>
           IF base_leg.value = None \/ quote_leg.value = None
           THEN ~r.panicked /\ r.value = None
           ELSE \A divided \in {FixedDivFloorIn(build, Num(base_leg.value[1].price),
                                                Num(quote_leg.value[1].price), decimals)} :
                   IF divided.status = "panic" THEN r.panicked
                   ELSE /\ ~r.panicked
                        /\ r.value = Some([price |-> divided.value,
                                           timestamp |-> t \div 1000])

\* C13: for a base index different from the quote index load_cross_price returns
\* none whenever either leg has no price at the timestamp, and otherwise
\* fixed_div_floor(base_price, quote_price, decimals) of the two legs read at that
\* same timestamp.
C13_CrossOfBothLegs ==
    configured =>
        \A build \in Builds, a \in 0..(assets - 1), b \in 0..(assets - 1), t \in CrossTimes,
           decimals \in {0, 14} :
            a # b => CrossAt(build, a, b, t, decimals)

\* C13 witness: at one timestamp both legs have a price and the cross price of
\* 5 by 7 with 14 decimals is 71428571428571, at another the base leg has a price,
\* the quote leg has none, and the cross price is none
C13_Witness ==
    /\ configured
    /\ \E t \in DOMAIN temp :
          LoadCrossPrice("checked", Store, 0, 1, t, 14, LedgerTimestamp(now)).value =
             Some([price |-> Pos(<<7, 1, 4, 2, 8, 5, 7, 1, 4, 2, 8, 5, 7, 1>>),
                   timestamp |-> t \div 1000])
    /\ \E t \in DOMAIN temp :
          /\ RetrieveAssetPriceData(Store, 0, t, LedgerTimestamp(now)).value # None
          /\ RetrieveAssetPriceData(Store, 1, t, LedgerTimestamp(now)).value = None
          /\ LoadCrossPrice("checked", Store, 0, 1, t, 14, LedgerTimestamp(now)).value = None

\* the closures the range and TWAP claims are checked for: the plain one of every
\* asset, and the cross one of every pair of different assets with 14 decimals
Queries(build) ==
    { Plain(a) : a \in 0..(assets - 1) }
        \cup { Cross(build, pair[1], pair[2], 14) :
                 pair \in { p \in (0..(assets - 1)) \X (0..(assets - 1)) : p[1] # p[2] } }

\* the latest valid timestamp in the current state
LatestValid == ObtainLastRecordTimestamp(last_timestamp, LedgerTimestamp(now), RESOLUTION)

\* the periods among the n most recent ones, walking back from the latest valid
\* timestamp, at which the closure has an answer
Answering(query, n) ==
    { k \in 0..(n - 1) :
        /\ LatestValid - k * RESOLUTION >= 0
        /\ GetPrice(query, Store, LatestValid - k * RESOLUTION,
                    LedgerTimestamp(now)).value # None }

\* C14: calculate_twap(get_one_fn, n) returns no value whenever fewer than n of the n
\* most recent periods, walking back from the latest valid timestamp in resolution
\* steps, yield a price: no average is taken over fewer than n records.
C14_TwapStrict ==
    configured =>
        \A build \in Builds : \A query \in Queries(build), n \in RecordCounts :
            (LatestValid = 0 \/ Cardinality(Answering(query, n)) < n) =>
                CalculateTwap(build, query, Store, n, LedgerTimestamp(now)).value = None

\* C14 witness: asset 1 has the price 7 at the latest valid timestamp and none one
\* period before it; its TWAP over 1 period is 7, over 2 periods there is none
C14_Witness ==
    /\ configured /\ LatestValid # 0
    /\ Answering(Plain(1), 2) = {0}
    /\ CalculateTwap("checked", Plain(1), Store, 1, LedgerTimestamp(now)).value
          = Some(Num(7))
    /\ CalculateTwap("checked", Plain(1), Store, 2, LedgerTimestamp(now)).value = None

\* the exact sum of the prices the closure answers with at the n most recent periods
RECURSIVE WindowSum(_, _)
WindowSum(query, n) ==
    IF n <= 0 THEN Pos(<<>>)
    ELSE Add(GetPrice(query, Store, LatestValid - (n - 1) * RESOLUTION,
                      LedgerTimestamp(now)).value[1].price,
             WindowSum(query, n - 1))

\* floor(x / n) for an exact signed number x and n > 0
FloorDiv(x, n) ==
    LET d == MagDivMod(x.mag, MagOf(n))
    IN IF ~x.neg THEN Pos(d.q)
       ELSE IF d.r = <<>> THEN [neg |-> d.q # <<>>, mag |-> d.q]
       ELSE [neg |-> TRUE, mag |-> MagAdd(d.q, <<1>>)]

TruncDiv(x, n) ==
    LET d == MagDivMod(x.mag, MagOf(n)) IN [neg |-> x.neg /\ d.q # <<>>, mag |-> d.q]

C16_LastTimestampWithinTwo ==
    configured =>
        /\ LatestValid =
              IF /\ last_timestamp # 0
                 /\ last_timestamp <= LedgerTimestamp(now)
                 /\ LedgerTimestamp(now) - last_timestamp <= 2 * RESOLUTION
              THEN last_timestamp ELSE 0
        /\ LatestValid = 0 =>
              /\ \A a \in 0..(assets - 1) :
                    LastPriceOf(Store, a, LedgerTimestamp(now)).value = None
              /\ \A build \in Builds : \A a \in 0..(assets - 1), b \in 0..(assets - 1) :
                    XLastPriceOf(build, Store, a, b, 14, LedgerTimestamp(now)).value = None

\* C16 as the code has it: the stored last timestamp is returned exactly when it is
\* non-zero, not after the current ledger time and less than two resolutions older
\* than it; in every other case the result is 0, and lastprice and x_last_price then
\* return none.
C16_LastTimestampBelowTwo ==
    configured =>
        /\ LatestValid =
              IF /\ last_timestamp # 0
                 /\ last_timestamp <= LedgerTimestamp(now)
                 /\ LedgerTimestamp(now) - last_timestamp < 2 * RESOLUTION
              THEN last_timestamp ELSE 0
        /\ LatestValid = 0 =>
              /\ \A a \in 0..(assets - 1) :
                    ~LastPriceOf(Store, a, LedgerTimestamp(now)).panicked
                    /\ LastPriceOf(Store, a, LedgerTimestamp(now)).value = None
              /\ \A build \in Builds : \A a \in 0..(assets - 1), b \in 0..(assets - 1) :
                    ~XLastPriceOf(build, Store, a, b, 14, LedgerTimestamp(now)).panicked
                    /\ XLastPriceOf(build, Store, a, b, 14, LedgerTimestamp(now)).value
                          = None

\* the last record is exactly two resolutions old and still live, and it is not
\* the latest valid one
C16_Witness ==
    /\ configured
    /\ last_timestamp # 0
    /\ LedgerTimestamp(now) - last_timestamp = 2 * RESOLUTION
    /\ last_timestamp \in DOMAIN temp
    /\ LatestValid = 0

\* the answers of the closure at the timestamps of a walk, in the order of the walk
RECURSIVE AnswersFrom(_, _, _)
AnswersFrom(query, visited, i) ==
    IF i > Len(visited) THEN <<>>
    ELSE CHOOSE answers \in
            { (IF got.value = None THEN <<>> ELSE <<got.value[1]>>)
                 \o AnswersFrom(query, visited, i + 1) :
                got \in {GetPrice(query, Store, visited[i], LedgerTimestamp(now))} } : TRUE

\* the number of one walk's periods: min(n, 20), cut where the walk reaches zero
WalkLength(n) == Min(Min(n, 20), (LatestValid \div RESOLUTION) + 1)

\* C17: load_prices(get_one_fn, n) visits T, T - resolution, ... for at most min(n, 20)
\* periods from the latest valid timestamp T and never below zero; it returns, newest
\* first, exactly the answers of get_one_fn for the visited periods that had one (at
\* most min(n, 20) entries, strictly decreasing timestamps), and none when T is 0 or
\* no visited period had an answer.
C17_LoadPricesWalk ==
    configured =>
        \A query \in UNION { Queries(build) : build \in Builds }, n \in RecordCounts :
            \A r \in {LoadPrices(query, Store, n, LedgerTimestamp(now))} :
            \A answers \in {IF r.panicked THEN <<>> ELSE AnswersFrom(query, r.visited, 1)} :
               ~r.panicked =>
                  /\ Len(r.visited) = IF LatestValid = 0 THEN 0 ELSE WalkLength(n)
                  /\ \A i \in 1..Len(r.visited) :
                        /\ r.visited[i] = LatestValid - (i - 1) * RESOLUTION
                        /\ r.visited[i] >= 0
                  /\ r.value = IF answers = <<>> THEN None ELSE Some(answers)
                  /\ r.value # None =>
                        /\ Len(r.value[1]) <= Min(n, 20)
                        /\ \A i \in 1..(Len(r.value[1]) - 1) :
                              r.value[1][i].timestamp > r.value[1][i + 1].timestamp

\* a request for 21 records walks 20 periods and answers with the one price they hold
C17_Witness ==
    /\ configured
    /\ \E build \in Builds : \E query \in Queries(build) :
          LET r == LoadPrices(query, Store, 21, LedgerTimestamp(now))
          IN /\ ~r.panicked
             /\ Len(r.visited) = 20
             /\ r.value # None
             /\ Len(r.value[1]) = 1

\* the k most recently accepted (timestamp, record) pairs, newest first
MostRecent(k) ==
    [i \in 1..k |-> <<log[Len(log) - i + 1], temp[log[Len(log) - i + 1]]>>]

\* an accepted set_price pushes its pair at the front and drops entries at the back only
PushEvictsOldest ==
    log' # log =>
        /\ cache' # <<>>
        /\ cache'[1] = <<log'[Len(log')], temp'[log'[Len(log')]]>>
        /\ Len(cache') <= Len(cache) + 1
        /\ SubSeq(cache', 2, Len(cache')) = SubSeq(cache, 1, Len(cache') - 1)

\* C18: with a fixed cache_size c > 0, after c + 5 accepted updates with strictly
\* increasing timestamps the recency cache holds exactly the c most recently stored
\* (timestamp, record) pairs, newest first; each push evicts from the back only.
C18_CacheKeepsMostRecent ==
    /\ [](cache_size > 0 /\ Len(log) = cache_size + 5 /\ StrictlyIncreasing(log)
             => cache = MostRecent(cache_size))
    /\ [][PushEvictsOldest]_vars

\* seven updates of seven successive periods have been accepted with a cache of two
C18_Witness ==
    /\ cache_size = 2
    /\ Len(log) = cache_size + 5
    /\ StrictlyIncreasing(log)
    /\ Len(cache) = 2
    /\ cache[1][2] # cache[2][2]

\* the timestamps of the cache entries, front to back
CacheTimes == [i \in 1..Len(cache) |-> cache[i][1]]

\* C19: in every state reachable by any interleaving of set_price and set_cache_size
\* calls the recency cache holds at most cache_size entries (the currently configured
\* bound) and its entries are ordered newest timestamp first.
C19_CacheBoundedAndOrdered ==
    /\ Len(cache) <= cache_size
    /\ \A i \in 1..(Len(cache) - 1) : CacheTimes[i] > CacheTimes[i + 1]

\* C20: the cache is purely an optimization: in every reachable state, for every
\* timestamp t whose durable record is live, load_history_record(t) returns the record
\* the durable store holds for t.
C20_CacheAgreesWithStore ==
    \A t \in DOMAIN temp : LoadHistoryRecord(cache, temp, t) = Some(temp[t])

\* the greatest timestamp of the accepted updates, 0 when there is none
NewestAccepted == CHOOSE m \in Range(log) \cup {0} : \A t \in Range(log) : t <= m

\* the marker moves only to the timestamp of an update just accepted, and only forward
MarkerMovesForward ==
    /\ last_timestamp' >= last_timestamp
    /\ last_timestamp' # last_timestamp =>
          /\ Len(log') = Len(log) + 1
          /\ last_timestamp' = log'[Len(log')]

\* C21: the last-timestamp marker is 0 before any update is accepted, is replaced by
\* an accepted update's timestamp only when that timestamp is newer, never decreases,
\* and always equals the maximum timestamp of all accepted non-empty updates.
C21_LastTimestampIsNewest ==
    /\ [](last_timestamp = NewestAccepted)
    /\ [][MarkerMovesForward]_vars

\* an update older than the marker has been accepted after a newer one
C21_Witness ==
    /\ Len(log) = 2
    /\ log[2] < log[1]
    /\ last_timestamp = log[1]

\* periods inside the window, and just beyond it
ProbedPeriods == {0, 7, 8, 255, 256, 263, 264, 511}

\* C22: check_history_updated(buffer, asset_index, periods_ago) returns false, without
\* failing, for every periods_ago >= 256 and for every asset index whose 32-byte slice
\* is not present in the buffer; it never reports a bit of another asset's slice.
C22_OutOfRangeIsFalse ==
    \A build \in Builds, a \in 0..(width + 1), k \in ProbedPeriods :
        (k >= 256 \/ Len(buffer) < (a + 1) * RECORD_SIZE) =>
            CheckHistoryUpdatedIn(build, buffer, a, k) = [status |-> "ok", value |-> FALSE]

\* C23: for a price vector of at most 256 entries whose mask was generated bit by
\* bit from the positive prices, check_period_updated answers for every index of
\* the vector whether the price at that index is positive
C23_SmallMaskRoundTrip ==
    Len(record_prices) <= 8 * RECORD_SIZE =>
        \A i \in 0..(Len(record_prices) - 1) :
            CheckPeriodUpdated(record_mask, i) = (record_prices[i + 1] > 0)

\* a full vector of 256 entries with positive, zero and negative prices, the last
\* one positive
C23_Witness ==
    /\ Len(record_prices) = 8 * RECORD_SIZE
    /\ record_prices[8 * RECORD_SIZE] > 0
    /\ \E i, j \in 1..Len(record_prices) : record_prices[i] = 0 /\ record_prices[j] < 0

\* updates that carry no price, with an empty and a non-empty mask
EmptyUpdates == { Update(<<>>, 0), Update(<<>>, 3) }

\* C24: set_price authorized by the admin with an update of zero prices returns
\* without error and leaves the history mask, last timestamp, cache, stored records
\* and protocol keys unchanged, whatever the timestamp (valid, zero, unaligned, future)
C24_EmptyUpdateIsNoOp ==
    configured =>
        \A update \in EmptyUpdates, timestamp \in Timestamps(now) :
            \E r \in {SetPriceCall(Store, TRUE, update, timestamp, now)} :
                /\ r.status = "skipped"
                /\ r.st = Store

\* C24 witness: a configured contract holding a history, a marker, a cached and a
\* stored record, on which the empty update arrives after the clock moved on
C24_Witness ==
    /\ configured
    /\ history # <<>>
    /\ last_timestamp > 0
    /\ cache # <<>>
    /\ DOMAIN temp # {}
    /\ now > START_TIME

\* everything a contract stores
Stored ==
    <<storage, asset_list, asset_indexes, expiration, fee_config, retention, costs, wasm>>

\* an invocation of the admin section that the stored admin did not authorize
UnauthorizedInvocation ==
    \E is_admin \in BOOLEAN :
        /\ ~AdminAuthorized(is_admin)
        /\ \/ SetCacheSize(is_admin, 1)
           \/ \E batch \in AddedBatches : AddAssets(is_admin, batch)
           \/ SetHistoryRetentionPeriod(is_admin, RESOLUTION)
           \/ \E fee \in Fees : SetFeeConfig(is_admin, fee)
           \/ SetInvocationCostsConfig(is_admin, TestCosts)
           \/ SetPriceWithin(1, is_admin, Update(<<5>>, 1), LedgerTimestamp(now))
           \/ UpdateContract(is_admin, 1)

\* C25: an invocation of set_cache_size, add_assets, set_history_retention_period,
\* set_fee_config, set_invocation_costs_config, set_price or update_contract that the
\* stored admin did not authorize leaves everything the contract stores unchanged
C25_AdminOnly == [][UnauthorizedInvocation => UNCHANGED Stored]_vars

\* C27: the asset list never holds more than 1000 assets; add_assets of assets not
\* registered before succeeds whenever the resulting list has at most 1000 entries,
\* and otherwise fails with AssetLimitExceeded leaving the registry unchanged
C27_AssetCap ==
    /\ Len(asset_list) <= ASSET_LIMIT
    /\ configured =>
          \A count \in LimitSizes :
              \E r \in {AddAssetsCall(Registry, FreshBatch(Len(asset_list), count),
                                      LedgerTimestamp(now),
                                      InitialExpirationPeriod(flavour))} :
                  IF Len(asset_list) + count <= ASSET_LIMIT
                  THEN /\ r.status = "ok"
                       /\ r.reg.asset_list = asset_list \o FreshBatch(Len(asset_list), count)
                  ELSE /\ r.status = "AssetLimitExceeded"
                       /\ r.reg = Registry

\* seq is an initial part of longer
IsPrefix(seq, longer) ==
    /\ Len(seq) <= Len(longer)
    /\ SubSeq(longer, 1, Len(seq)) = seq

\* the asset keys hold, for each listed asset and no other, its position in the list
DenseIndexes ==
    /\ DOMAIN asset_indexes = Range(asset_list)
    /\ \A i \in 1..Len(asset_list) : asset_indexes[asset_list[i]] = i - 1
    /\ assets = Len(asset_list)

\* a batch naming a registered asset, or one asset twice
Repeating(batch) ==
    \/ \E i \in 1..Len(batch) : batch[i] \in Range(asset_list)
    \/ \E i, j \in 1..Len(batch) : i # j /\ batch[i] = batch[j]

\* add_assets fails on a repeating batch, and a failed add_assets changes nothing
RepeatsRefused ==
    \A batch \in AddedBatches \cup ConfigBatches :
        \E r \in {AddAssetsCall(Registry, batch, LedgerTimestamp(now),
                                InitialExpirationPeriod(flavour))} :
            /\ Repeating(batch) => r.status = "AssetAlreadyExists"
            /\ r.status # "ok" => r.reg = Registry

\* C26: the registry is append-only with dense stable indices: the asset at position
\* i of the list resolves to index i, the list only grows at its end, so that an
\* index once given never changes, and add_assets fails, changing nothing, when its
\* batch names a registered asset or one asset twice
C26_AppendOnlyRegistry ==
    /\ [](DenseIndexes /\ RepeatsRefused)
    /\ [][IsPrefix(asset_list, asset_list')]_vars

\* C26 witness: three assets registered by three calls in an order that is not the
\* order of their names
C26_Witness ==
    /\ asset_list = <<1, 3, 2>>
    /\ asset_indexes[3] = 1
    /\ asset_indexes[2] = 2

\* C28: whenever the expiration vector is non-empty it has exactly one entry per
\* registered asset, entry i for the asset with index i, so that expires answers for
\* every registered asset with that asset's own entry
C28_ExpirationParallel ==
    Len(expiration) > 0 =>
        /\ Len(expiration) = Len(asset_list)
        /\ \A asset \in Range(asset_list) :
               Expires(Registry, asset) =
                   [status |-> "ok", value |-> Some(expiration[asset_indexes[asset] + 1])]

\* the greater of two u64
MagMax(a, b) == IF MagCmp(a, b) < 0 THEN b ELSE a

\* floor(amount * 86_400_000 / rate) for amount > 0 and rate > 0
Extension(amount, rate) ==
    MagDivMod(MagMul(MagOf(amount), MagOf(MS_PER_DAY)), MagOf(rate)).q

\* C29: extend_asset_ttl for a registered asset with amount > 0 and a fee rate > 0
\* sets the asset's expiration to max(current expiration, now) +
\* floor(amount * 86_400_000 / rate), leaves the other expirations unchanged and never
\* lowers an expiration; with amount <= 0, a fee config of None or a rate <= 0 it fails
\* and changes nothing
C29_ExtendTtl ==
    \A asset \in Range(asset_list), amount \in Amounts :
        \E r \in {ExtendTtl(Registry, TRUE, asset, amount, LedgerTimestamp(now),
                            InitialExpirationPeriod(flavour))} :
            LET fee == GetFeeConfig(fee_config)
                i == asset_indexes[asset] + 1
            IN IF amount <= 0 \/ fee = FeeNone \/ fee.rate <= 0
               THEN r.status # "ok" /\ r.reg = Registry
               ELSE /\ r.status = "ok"
                    /\ i <= Len(expiration)
                    /\ r.reg.expiration =
                          [expiration EXCEPT ![i] =
                              MagAdd(MagMax(expiration[i], MagOf(LedgerTimestamp(now))),
                                     Extension(amount, fee.rate))]
                    /\ MagCmp(r.reg.expiration[i], expiration[i]) >= 0
                    /\ r.reg = [Registry EXCEPT !.expiration = r.reg.expiration]

\* the assets an entry point is asked about
AskedOf(entry, base_asset, quote_asset) ==
    IF entry \in {"x_last_price", "x_price", "x_prices", "x_twap"}
    THEN {base_asset, quote_asset} ELSE {base_asset}

\* no price is on record for the asset index at the timestamp (0: no timestamp at all)
NoPriceAt(asset, timestamp) ==
    \/ timestamp = 0
    \/ \E found \in {RetrieveAssetPriceData(Store, asset, timestamp, LedgerTimestamp(now))} :
          ~found.panicked /\ found.value = None

\* the registered asset has no price at the point the entry point is asked for: the
\* given time for price and x_price, the last record for the others, and for the
\* entry points that walk back over records also none at the periods walked
NoPriceFor(entry, asset, seconds, records) ==
    LET last == ObtainLastRecordTimestamp(last_timestamp, LedgerTimestamp(now), RESOLUTION)
        index == asset_indexes[asset]
    IN IF entry \in {"price", "x_price"}
       THEN NoPriceAt(index, Normalize(seconds * 1000, RESOLUTION))
       ELSE IF entry \in {"prices", "x_prices"}
       THEN \A back \in 0..(records - 1) :
               last - back * RESOLUTION <= 0 \/ NoPriceAt(index, last - back * RESOLUTION)
       ELSE NoPriceAt(index, last)

\* C30: a query entry point asked about an asset that is not registered returns None
\* and does not fail, and so does one asked about a registered asset that has no
\* price at the requested point
C30_QueriesReturnNone ==
    \A entry \in Entries, build \in Builds, base_asset \in AskedAssets :
        \A quote_asset \in AskedAssets, seconds \in {now, now - Period} :
            (\E asset \in AskedOf(entry, base_asset, quote_asset) :
                \/ ResolveAssetIndex(Registry, asset) = None
                \/ NoPriceFor(entry, asset, seconds, 2))
            => \E r \in {Ask(entry, build, base_asset, quote_asset, seconds, 2)} :
                  ~r.panicked /\ r.value = None

\* C31: estimate_cost(invocation, periods) is 0 when the fee config is None or the
\* base cost of the invocation class is below 1; otherwise it is the base cost when
\* periods <= 1 or the period modifier is 0, and
\* floor(base * (10_000_000 + (periods - 1) * modifier) / 10_000_000) when periods > 1,
\* base and modifier taken from the stored costs vector or from its defaults.
ClaimedCost(invocation, periods) ==
    LET base == CostAt(LoadCostsConfig(costs), invocation)
        modifier == CostAt(LoadCostsConfig(costs), NModifier)
    IN IF GetFeeConfig(fee_config) = FeeNone \/ base = <<>> THEN <<>>
       ELSE IF periods <= 1 \/ modifier = <<>> THEN base
       ELSE MagDivMod(ScaledCost(base, periods, modifier), MagOf(SCALE)).q

C31_EstimateCost ==
    \A build \in Builds, invocation \in InvocationComplexity, periods \in EstimatedPeriods :
        EstimateCost(build, invocation, periods)
            = Returned(Pos(ClaimedCost(invocation, periods)))

\* C31 for the costs an i128 holds: the same value whenever the exact product
\* base * (10_000_000 + (periods - 1) * modifier) is at most i128::MAX
ProductFits(invocation, periods) ==
    \/ periods <= 1
    \/ FitsI128(Pos(ScaledCost(CostAt(LoadCostsConfig(costs), invocation), periods,
                               CostAt(LoadCostsConfig(costs), NModifier))))

C31_EstimateCostWithinI128 ==
    \A build \in Builds, invocation \in InvocationComplexity, periods \in EstimatedPeriods :
        ProductFits(invocation, periods)
            => EstimateCost(build, invocation, periods)
                  = Returned(Pos(ClaimedCost(invocation, periods)))

\* the costs of invocation_charge_estimate_test are stored, a fee is configured, and
\* a cross twap over 7 periods is estimated at 66_000_000
C31_Witness ==
    /\ costs = Some(DefaultCosts)
    /\ fee_config = FeeSome(DEFAULT_RETENTION_FEE)
    /\ EstimateCost("checked", 4, 7) = Returned(Num(66000000))
    /\ EstimateCost("checked", 1, 2) = Returned(Num(12000000))

\* C32: config succeeds at most once: a contract once configured stays configured,
\* and every later config, whatever ran in between, fails with AlreadyInitialized
\* and leaves what the contract stores (settings, admin, asset list, protocol
\* version) unchanged
LaterConfig(batch, fee) == configured /\ ConfigWith(batch, 0, fee, TestRetention)

Refused ==
    \A batch \in LaterBatches, fee \in Fees :
        ConfigStatus(batch, fee) = "AlreadyInitialized"

C32_ConfigOnce ==
    [][/\ configured => configured'
       /\ configured' => Refused'
       /\ \A batch \in LaterBatches, fee \in Fees :
             UNCHANGED Stored \/ ~LaterConfig(batch, fee)]_vars

\* a configured contract after set_cache_size and add_assets, where a config that
\* would reset the cache size and the fee is refused
C32_Witness ==
    /\ configured /\ cache_size = 1 /\ Len(asset_list) = 3 /\ retention = RESOLUTION
    /\ calls > 0
    /\ ConfigStatus(<<4>>, FeeNone) = "AlreadyInitialized"
    /\ ENABLED LaterConfig(<<4>>, FeeNone)

\* C33: under protocol version 2, after any accepted updates, those for a timestamp
\* equal to or older than the last one included, bit k of an asset's window is set
\* exactly when the record stored for last_timestamp - k * resolution carries a
\* positive price for the asset (0 <= k <= 255, records still live); and an accepted
\* update that is not newer than the last timestamp leaves the bits of the other
\* periods where they are
WindowPeriods == 0..255

RecordPositive(a, t) == t \in DOMAIN temp /\ CarriedPrice(temp[t], a) > 0

WindowFollowsRecords ==
    (protocol = CURRENT_PROTOCOL /\ Range(log) \subseteq DOMAIN temp) =>
        \A a \in 0..(assets - 1), k \in WindowPeriods :
            CheckHistoryUpdated(history, a, k)
                <=> RecordPositive(a, last_timestamp - k * RESOLUTION)

AcceptedNotNewer ==
    /\ protocol = CURRENT_PROTOCOL /\ last_timestamp > 0
    /\ Len(log') = Len(log) + 1
    /\ log'[Len(log')] <= last_timestamp

OtherBitsKept ==
    \A a \in 0..(assets - 1), k \in WindowPeriods :
        last_timestamp - k * RESOLUTION # log'[Len(log')] =>
            (CheckHistoryUpdated(history', a, k) <=> CheckHistoryUpdated(history, a, k))

C33_WindowFollowsRecords ==
    [][WindowFollowsRecords' /\ (AcceptedNotNewer => OtherBitsKept)]_vars

\* C34: migration preserves answers.  For every positive price that an update
\* accepted under the Legacy protocol stored for an asset, at a timestamp within 255
\* periods of the last timestamp and with live records, the legacy lookup before
\* the flip and the bitmask lookup after the flip to version 2 return the same
\* price; the legacy read uses the legacy keys only and the bitmask read the mask
\* and the records only.
HeldLegacy == [Store EXCEPT !.pending = LedgerTimestamp(now)]

Flipped == [Store EXCEPT !.protocol = CURRENT_PROTOCOL, !.pending = 0]

ReadOf(st, a, t) == RetrieveAssetPriceData(st, a, t, LedgerTimestamp(now))

MigratedKeys ==
    { key \in DOMAIN v1 :
        /\ v1[key] > 0 /\ key[2] < assets /\ key[1] \in DOMAIN temp
        /\ key[1] <= last_timestamp
        /\ (last_timestamp - key[1]) \div RESOLUTION <= 255 }

C34_MigrationPreservesAnswers ==
    (configured /\ protocol # CURRENT_PROTOCOL) =>
        \A key \in MigratedKeys :
            /\ ~ReadOf(HeldLegacy, key[2], key[1]).panicked
            /\ ~ReadOf(Flipped, key[2], key[1]).panicked
            /\ ReadOf(HeldLegacy, key[2], key[1]).value
                  = Some(NormalizePriceData(v1[key], key[1]))
            /\ ReadOf(Flipped, key[2], key[1]).value
                  = ReadOf(HeldLegacy, key[2], key[1]).value
            /\ ReadOf([HeldLegacy EXCEPT !.history = <<>>, !.cache = <<>>, !.temp = <<>>],
                      key[2], key[1]).value = ReadOf(HeldLegacy, key[2], key[1]).value
            /\ ReadOf([Flipped EXCEPT !.v1 = <<>>], key[2], key[1]).value
                  = ReadOf(Flipped, key[2], key[1]).value

\* C35: cross-price queries never abort.  In every reachable state, for every pair
\* of registered assets, x_price, x_last_price, x_prices and x_twap complete with a
\* value or none, and the two legs that reach fixed_div_floor are strictly positive
\* prices.
CrossEntries == {"x_price", "x_last_price", "x_prices", "x_twap"}

LegsPositive ==
    \A a \in 0..(assets - 1), b \in 0..(assets - 1), t \in CrossTimes :
        \A base_leg \in {RetrieveAssetPriceData(Store, a, t, LedgerTimestamp(now))},
           quote_leg \in {RetrieveAssetPriceData(Store, b, t, LedgerTimestamp(now))} :
            (a # b /\ ~base_leg.panicked /\ ~quote_leg.panicked
                   /\ base_leg.value # None /\ quote_leg.value # None)
                => base_leg.value[1].price > 0 /\ quote_leg.value[1].price > 0

C35_CrossQueriesComplete ==
    configured =>
        /\ LegsPositive
        /\ \A entry \in CrossEntries, build \in Builds, base_asset \in Range(asset_list),
              quote_asset \in Range(asset_list), seconds \in {now, now - Period},
              records \in RecordCounts :
                ~Ask(entry, build, base_asset, quote_asset, seconds, records).panicked

\* C36: no cross-asset leakage.  Under either protocol version, a price that
\* price(a, t) returns for a registered asset index a, the indexes of 256 and above
\* included, is a price that an accepted update carried for a itself at timestamp t.
RecordedFor(a, t, price) ==
    /\ t \in Range(log)
    /\ \E update \in EntryUpdates : price > 0 /\ CarriedPrice(update, a) = price

C36_NoLeakage ==
    configured =>
        \A a \in WideIndexes, t \in DOMAIN temp \cup Range(log) :
            a < assets =>
                /\ ~PriceOf(a, t).panicked
                /\ PriceOf(a, t).value # None =>
                      RecordedFor(a, t, PriceOf(a, t).value[1].price)

\* C37: the queries are read-only with respect to price data.  price, lastprice,
\* prices, x_price, x_last_price, x_prices, twap and x_twap leave the history mask,
\* the cache, the last timestamp, the stored records and the registered assets as
\* they are; a query changes the protocol gate (pending timestamp and version) at
\* most, and under protocol version 2 it changes nothing.
ReadOnly(r) ==
    /\ [r.st EXCEPT !.protocol = protocol, !.pending = pending] = Store
    /\ protocol = CURRENT_PROTOCOL => r.st = Store

C37_QueriesReadOnly ==
    \A entry \in Entries, build \in Builds, base_asset \in AskedAssets,
       quote_asset \in AskedAssets, seconds \in {now, now - Period} :
        ReadOnly(Ask(entry, build, base_asset, quote_asset, seconds, 2))

\* a legacy contract with stored records and a pending upgrade, more than a day
\* later: price flips the protocol to version 2 and touches nothing else
C37_Witness ==
    /\ configured /\ protocol # CURRENT_PROTOCOL /\ pending # 0 /\ last_timestamp > 0
    /\ \E r \in {Ask("price", "checked", 1, 1, now, 2)} :
          /\ ~r.panicked
          /\ r.st.protocol = CURRENT_PROTOCOL /\ r.st.pending = 0
          /\ r.st # Store
          /\ ReadOnly(r)

\* C38: calculate_twap never divides by zero: for n = 0 it returns none, and for
\* every n > 20 it returns none in every state, because the range walker loads at
\* most 20 records and the record count must equal n.  The divisor prices.len() is
\* at least 1 wherever load_prices answers; a call for 0 records completes without
\* a value in every state; a call for 21 records never returns a value, and the only
\* way it does not complete is a panic of the price closure during the walk.
DivisorPositive(build, prices) ==
    /\ Len(prices) >= 1
    /\ \A sum \in {SumI128(build, prices, 1, Pos(<<>>))} :
          sum.status # "panic" => DivI128(sum.value, Num(Len(prices))).status # "panic"

C38_TwapNeverDividesByZero ==
    configured =>
        \A build \in Builds : \A query \in Queries(build) :
            /\ \A n \in RecordCounts :
                  \A loaded \in {LoadPrices(query, Store, n, LedgerTimestamp(now))} :
                     /\ ~loaded.panicked /\ loaded.value # None =>
                           /\ DivisorPositive(build, loaded.value[1])
                           /\ Len(loaded.value[1]) <= 20
                     /\ n = 0 => ~loaded.panicked /\ loaded.value = None
            /\ \A n \in {0, 21} :
                  \A r \in {CalculateTwap(build, query, Store, n, LedgerTimestamp(now))} :
                     /\ r.value = None
                     /\ n = 0 => ~r.panicked
                     /\ r.panicked =>
                           LoadPrices(query, Store, n, LedgerTimestamp(now)).panicked

\* asset 1 has a price at the latest valid timestamp: its TWAP over 1 period is that
\* price divided by 1, over 0 periods and over 21 periods there is none, and the
\* walk for 21 periods visited 20 of them
C38_Witness ==
    /\ configured /\ LatestValid # 0
    /\ CalculateTwap("checked", Plain(1), Store, 1, LedgerTimestamp(now)).value # None
    /\ CalculateTwap("checked", Plain(1), Store, 0, LedgerTimestamp(now)).value = None
    /\ CalculateTwap("checked", Plain(1), Store, 21, LedgerTimestamp(now)).value = None
    /\ LoadPrices(Plain(1), Store, 0, LedgerTimestamp(now)).visited = <<>>
    /\ Len(LoadPrices(Plain(1), Store, 21, LedgerTimestamp(now)).visited) = 20
    /\ LoadPrices(Plain(1), Store, 21, LedgerTimestamp(now)).value # None

\* C39: in the metered (beam) contract, when a fee config is set every query over N
\* requested records (prices, x_prices, twap, x_twap) burns from the caller exactly
\* estimate_cost(class of the query, N), single-record queries burn
\* estimate_cost(class, 1), and nothing is charged when the fee config is None.
RequestedRecords == { 0, 1, 2, 5 }

RangeEntries == {"prices", "x_prices", "twap", "x_twap"}

C39_ChargeMatchesEstimate ==
    fee_config # Absent =>
        \A entry \in Entries, build \in Builds, records \in RequestedRecords :
            BeamCharge(entry, build, records)
                = IF fee_config = FeeNone THEN Returned(Pos(<<>>))
                  ELSE EstimateCost(build, ComplexityOf(entry),
                                    IF entry \in RangeEntries THEN records ELSE 1)

====
